---------------------------- MODULE Spec2Model ----------------------------
(***************************************************************************)
(* Model of multi_platform_deployer: the deployment orchestrator           *)
(* (main.py, class Deployer) and the snapshot-based rollback store         *)
(* (scripts/rollback.py, class RollbackManager).                           *)
(*                                                                         *)
(* The project tree is a function from a few representative files to a     *)
(* content number (0 = the file does not exist).  The history directory    *)
(* .deployment holds the JSON sidecars, kept here as a sequence in the     *)
(* order of their modification time (oldest first: every write of a        *)
(* sidecar moves it to the end), and .deployment/artifacts holds the zip   *)
(* archives, a function from checkpoint id to the archived files.          *)
(* A checkpoint id "{platform.lower()}_{%Y%m%d%H%M%S}" is the pair         *)
(* <<lower-cased platform, second>>.                                       *)
(*                                                                         *)
(* Filesystem faults the code handles (mkdir, archive write, sidecar       *)
(* write, archive extraction) are inputs of the operations, limited by the *)
(* budget MaxFaults.  Deleting files in the retention sweep is assumed to  *)
(* succeed, and modification times are assumed to be strictly increasing.  *)
(***************************************************************************)
EXTENDS Integers, Sequences, FiniteSets, TLC

VARIABLES
    tree,           \* the live project tree: file -> content (0 = absent)
    deploymentDir,  \* does <project_root>/.deployment exist
    artifactsDir,   \* does <project_root>/.deployment/artifacts exist
    sidecars,       \* the *.json files of .deployment, oldest mtime first
    archives,       \* the *.zip files of .deployment/artifacts, by id
    now,            \* the UTC clock, in whole seconds
    config,         \* Deployer.config, fixed at construction
    requirements,   \* <project_root>/requirements.txt: is it there, its lines
    ops,            \* the create_checkpoint operations that run step by
                    \* step, by process: position, id, record, retained ids
    readiness,      \* what check_deployment_readiness last returned: "ready",
                    \* "framework_notready" (only the framework checker
                    \* failed), "notready", or "none" (never called)
    ncreated,       \* number of create_checkpoint calls that returned a state
    faults,         \* number of filesystem faults injected so far
    mutations,      \* number of edits made to the project tree so far
    last            \* the most recent call: its arguments, steps and result

vars == <<tree, deploymentDir, artifactsDir, sidecars, archives, now, config,
          requirements, ops, readiness, ncreated, faults, mutations, last>>

storeVars == <<deploymentDir, artifactsDir, sidecars, archives>>

(***************************************************************************)
(* Bounds of the model.                                                    *)
(***************************************************************************)
MaxTime == 5
MaxCheckpoints == 6
MaxDeploys == 1
MaxSnapshots == 2
MaxFaults == 1
MaxMutations == 1
MaxKeep == 2
MaxPlatforms == 2
MaxLines == 5

(***************************************************************************)
(* Program constants.                                                      *)
(***************************************************************************)
DefaultKeepCount == 5

AVAILABLE_DEPLOYERS == {"render", "railway", "vercel", "heroku"}

AVAILABLE_CHECKERS == {"flask", "django", "fastapi"}

EXCLUDED_DIRS == {".deployment", ".git", ".venv", "__pycache__"}

ExcludedSuffixes == {"pyc", "pyo"}

(***************************************************************************)
(* Inputs.                                                                 *)
(***************************************************************************)
\* Platform names a caller passes: a registered one, also in mixed case, and
\* one that no deployer is registered for.
PlatformInputs == {"render", "Render", "aws"}

FrameworkInputs == {"flask", "Django", "rails"}

\* str.lower() on the names used here.
Lower(s) ==
    CASE s = "Render" -> "render"
      [] s = "Django" -> "django"
      [] OTHER -> s

\* A file of the project: the directories above it, its stem and its suffix.
File(dirs, stem, suffix) == [dirs |-> dirs, stem |-> stem, suffix |-> suffix]

AppPy == File(<<>>, "app", "py")

ModPyc == File(<<"pkg">>, "mod", "pyc")

GitHead == File(<<".git">>, "HEAD", "")

Files == {AppPy, ModPyc, GitHead}

\* File contents; 0 stands for "no such file".
Contents == {1, 2}

Trees == [Files -> {0} \cup Contents]

InitialTree == [f \in Files |-> 1]

Configs == {"valid", "invalid", "malformed"}

\* Lines that tell the counting rule apart: blank ones, comments (one
\* holding an operator, one indented), a bare name, names with a lone ">"
\* or with "!=", and a name with each of the version operators.
ShapeLines ==
    { <<>>, <<" ", " ">>, <<"#", "=", "=">>, <<" ", "#", "x">>, <<"r">>,
      <<"a", ">", "1">>, <<"a", "!", "=", "1">> } \cup
    { <<"b">> \o op \o <<"2">> :
        op \in { <<"=", "=">>, <<">", "=">>, <<"<", "=">>, <<"~", "=">>,
                 <<"=", "=", "=">> } }

\* Lines that make up the ratios: a comment, a bare name, and a pinned name
\* that is indented and followed by a blank.
RatioLines == { <<"#", "=", "=">>, <<"r">>, <<" ", "c", "=", "=", "3", " ">> }

\* The requirements.txt files of the model: no file, files of up to
\* MaxLines ratio lines, and files of up to two shape lines.
RequirementsInputs ==
    {[exists |-> FALSE, lines |-> <<>>]} \cup
    { [exists |-> TRUE, lines |-> l] :
        l \in UNION ({ [1 .. n -> RatioLines] : n \in 0 .. MaxLines } \cup
                      { [1 .. n -> ShapeLines] : n \in 1 .. 2 }) }

\* The requirements.txt of a project prepared for deployment.
HealthyRequirements ==
    [exists |-> TRUE, lines |-> << <<"F", "l", "a", "s", "k", "=", "=", "2">> >>]

\* The platform lists a caller passes to deploy_to_multiple_platforms: the
\* empty list, lists with an unregistered name, and lists that name a
\* platform twice.
PlatformLists == UNION { [1 .. n -> PlatformInputs] : n \in 0 .. MaxPlatforms }

(***************************************************************************)
(* RollbackManager (scripts/rollback.py): pure parts.                      *)
(***************************************************************************)
\* The store on disk, as the operators below pass it around.
Store(dir, artdir, cars, zips) ==
    [dir |-> dir, artdir |-> artdir, sidecars |-> cars, archives |-> zips]

\* No filesystem fault in create_checkpoint.
NoFault == [mkdir |-> "ok", snap |-> "ok", write |-> "ok"]

\* mkdir: "ok" | "fail" (state_file.parent.mkdir raises);
\* snap:  "ok" | "fail_mkdir" (nothing written) | "fail_write" (a broken zip
\*        is left behind);
\* write: "ok" | "fail_open" (the sidecar is untouched) | "fail_dump" (the
\*        sidecar is left truncated).
\* A fault is drawn only for a step that runs.
CheckpointFaults ==
    { f \in [mkdir : {"ok", "fail"},
             snap : {"ok", "fail_mkdir", "fail_write"},
             write : {"ok", "fail_open", "fail_dump"}] :
        f.mkdir = "fail" => (f.snap = "ok" /\ f.write = "ok") }

FaultCost(f) ==
    (IF f.mkdir = "ok" THEN 0 ELSE 1) + (IF f.snap = "ok" THEN 0 ELSE 1)
        + (IF f.write = "ok" THEN 0 ELSE 1)

\* Faulty variant: the id is the timestamp alone.
_generate_deployment_id_SecondOnly(platform, t) == <<"", t>>

\* _generate_deployment_id(platform) at second t: the lower-cased platform
\* and the second, which the code joins to "{platform}_{timestamp}".
_generate_deployment_id(platform, t) == <<Lower(platform), t>>

\* The characters of the lower-cased platform names used here.
Chars(name) ==
    CASE name = "render" -> <<"r", "e", "n", "d", "e", "r">>
      [] name = "aws" -> <<"a", "w", "s">>
      [] OTHER -> <<>>

Digit(d) ==
    CASE d = 0 -> "0" [] d = 1 -> "1" [] d = 2 -> "2" [] d = 3 -> "3"
      [] d = 4 -> "4" [] d = 5 -> "5" [] d = 6 -> "6" [] d = 7 -> "7"
      [] d = 8 -> "8" [] OTHER -> "9"

\* strftime("%Y%m%d%H%M%S") for the second t of the model's minute: the
\* date, hour and minute are the same for all, the seconds have two digits.
Timestamp(t) ==
    <<"2", "0", "2", "6", "0", "1", "0", "1", "0", "0", "0", "0",
      Digit(t \div 10), Digit(t % 10)>>

\* The id as the string that names the sidecar and the archive.
IdText(id) == Chars(id[1]) \o <<"_">> \o Timestamp(id[2])

\* Is the file left out of a snapshot: it lies under an excluded directory
\* or is compiled bytecode.
IsExcluded(f) ==
    \/ \E i \in DOMAIN f.dirs : f.dirs[i] \in EXCLUDED_DIRS
    \/ f.suffix \in ExcludedSuffixes

\* The files a zip archive of the tree holds (0: not in the archive).
SnapshotFiles(t) == [f \in Files |-> IF IsExcluded(f) THEN 0 ELSE t[f]]

BrokenZip == [valid |-> FALSE, files |-> [f \in Files |-> 0]]

\* _create_project_snapshot: the store afterwards and the returned path
\* (path = TRUE: the relative path of the archive; FALSE: None).
_create_project_snapshot(st, id, t, fault) ==
    CASE fault = "fail_mkdir" -> [store |-> st, path |-> FALSE]
      [] fault = "fail_write" ->
            [store |-> [st EXCEPT !.artdir = TRUE,
                                  !.archives = (id :> BrokenZip) @@ st.archives],
             path |-> FALSE]
      [] OTHER ->
            [store |-> [st EXCEPT !.artdir = TRUE,
                                  !.archives = (id :> [valid |-> TRUE,
                                                       files |-> SnapshotFiles(t)])
                                               @@ st.archives],
             path |-> TRUE]

\* The sidecars without the one named id.
WithoutId(cars, id) == SelectSeq(cars, LAMBDA c : c.id # id)

\* Faulty variant: the record is written into the newest file of the
\* directory instead of the file named after its id.
WriteSidecar_IntoNewest(cars, rec) ==
    IF cars = <<>> THEN <<rec>> ELSE Append(SubSeq(cars, 1, Len(cars) - 1), rec)

\* Writing {id}.json: the file becomes the newest of the directory.
WriteSidecar(cars, rec) == Append(WithoutId(cars, rec.id), rec)

\* Faulty variant: a snapshot that could not be created aborts the save.
save_deployment_state_NeedsSnapshot(st, id, state, t, f) ==
    IF f.mkdir = "fail"
    THEN [store |-> st, ok |-> FALSE, trace |-> <<>>]
    ELSE LET snap == _create_project_snapshot([st EXCEPT !.dir = TRUE], id, t, f.snap)
             rec == [state EXCEPT !.art = snap.path]
             steps == <<[step |-> "_create_project_snapshot",
                         out |-> IF snap.path THEN "path" ELSE "none"]>>
         IN IF ~snap.path \/ f.write = "fail_open"
            THEN [store |-> snap.store, ok |-> FALSE, trace |-> steps]
            ELSE IF f.write = "fail_dump"
            THEN [store |-> [snap.store EXCEPT !.sidecars =
                                WriteSidecar(@, [rec EXCEPT !.ok = FALSE])],
                  ok |-> FALSE, trace |-> steps]
            ELSE [store |-> [snap.store EXCEPT !.sidecars = WriteSidecar(@, rec)],
                  ok |-> TRUE, trace |-> steps]

\* save_deployment_state: the store afterwards, the returned boolean and
\* the steps taken (the snapshot step and what it returned, when it ran).
save_deployment_state(st, id, state, t, f) ==
    IF f.mkdir = "fail"
    THEN [store |-> st, ok |-> FALSE, trace |-> <<>>]
    ELSE LET snap == _create_project_snapshot([st EXCEPT !.dir = TRUE], id, t, f.snap)
             rec == [state EXCEPT !.art = snap.path]
             steps == <<[step |-> "_create_project_snapshot",
                         out |-> IF snap.path THEN "path" ELSE "none"]>>
         IN CASE f.write = "fail_open" ->
                    [store |-> snap.store, ok |-> FALSE, trace |-> steps]
              [] f.write = "fail_dump" ->
                    [store |-> [snap.store EXCEPT !.sidecars =
                                    WriteSidecar(@, [rec EXCEPT !.ok = FALSE])],
                     ok |-> FALSE, trace |-> steps]
              [] OTHER ->
                    [store |-> [snap.store EXCEPT !.sidecars = WriteSidecar(@, rec)],
                     ok |-> TRUE, trace |-> steps]

\* Faulty variant: the list is sorted oldest first, so the oldest n are kept.
Newest_Oldest(cars, n) == IF n >= Len(cars) THEN cars ELSE SubSeq(cars, 1, n)

\* The newest n elements of a sequence kept oldest first: files[:n] of the
\* list sorted by mtime, newest first.
Newest(cars, n) ==
    IF n >= Len(cars) THEN cars ELSE SubSeq(cars, Len(cars) - n + 1, Len(cars))

Ids(cars) == { cars[i].id : i \in DOMAIN cars }

Restrict(zips, ids) == [i \in (DOMAIN zips) \cap ids |-> zips[i]]

\* Faulty variant: files_to_keep is built from the wrong slice, the deleted sidecars.
clean_old_deployments_WrongSlice(st, keep_count) ==
    IF ~st.dir
    THEN st
    ELSE LET kept == Newest(st.sidecars, keep_count)
         IN [st EXCEPT !.sidecars = kept,
                       !.archives = IF st.artdir
                                    THEN Restrict(@, Ids(st.sidecars) \ Ids(kept))
                                    ELSE @]

\* clean_old_deployments(keep_count).
clean_old_deployments(st, keep_count) ==
    IF ~st.dir
    THEN st
    ELSE LET kept == Newest(st.sidecars, keep_count)
         IN [st EXCEPT !.sidecars = kept,
                       !.archives = IF st.artdir THEN Restrict(@, Ids(kept)) ELSE @]

\* create_checkpoint(platform, metadata): the store afterwards, whether a
\* state (TRUE) or None (FALSE) is returned, how many sidecars the
\* retention sweep found (0 when it did not run), and the steps taken.
create_checkpoint(st, platform, run_migrations, t, clock, f) ==
    LET id == _generate_deployment_id(platform, clock)
        state == [id |-> id, platform |-> Lower(platform), art |-> FALSE,
                  ok |-> TRUE, run_migrations |-> run_migrations, src |-> t]
        saved == save_deployment_state(st, id, state, t, f)
        steps == saved.trace \o <<[step |-> "save_deployment_state",
                                   out |-> IF saved.ok THEN "true" ELSE "false"]>>
    IN IF saved.ok
       THEN [store |-> clean_old_deployments(saved.store, DefaultKeepCount),
             state |-> TRUE, found |-> Len(saved.store.sidecars),
             trace |-> steps \o <<[step |-> "clean_old_deployments", out |-> "none"]>>]
       ELSE [store |-> saved.store, state |-> FALSE, found |-> 0, trace |-> steps]

\* Faulty variant: the list is sorted oldest first, so files[0] is the
\* oldest sidecar.
get_previous_deployment_Oldest(st) ==
    IF ~st.dir \/ st.sidecars = <<>>
    THEN <<>>
    ELSE IF st.sidecars[1].ok THEN <<st.sidecars[1]>> ELSE <<>>

\* get_previous_deployment: <<record>> of the newest sidecar, or <<>> for
\* None (no directory, no sidecar, or a sidecar json.load cannot parse).
get_previous_deployment(st) ==
    IF ~st.dir \/ st.sidecars = <<>>
    THEN <<>>
    ELSE LET newest == st.sidecars[Len(st.sidecars)]
         IN IF newest.ok THEN <<newest>> ELSE <<>>

\* Faulty variant: the tree is made a mirror of the archive, so a file the
\* archive does not hold is deleted.
ExtractAll_Mirror(t, zip) == [f \in Files |-> zip.files[f]]

\* Faulty variant: extraction does not overwrite a file that exists.
ExtractAll_KeepExisting(t, zip) ==
    [f \in Files |-> IF zip.files[f] # 0 /\ t[f] = 0 THEN zip.files[f] ELSE t[f]]

\* ZipFile.extractall over the tree: files of the archive are written, every
\* other file is left alone.
ExtractAll(t, zip) == [f \in Files |-> IF zip.files[f] # 0 THEN zip.files[f] ELSE t[f]]

\* Extraction that stops with an error after writing the files in done.
ExtractSome(t, zip, done) ==
    [f \in Files |-> IF f \in done /\ zip.files[f] # 0 THEN zip.files[f] ELSE t[f]]

\* The files an archive holds.
Members(zip) == { f \in Files : zip.files[f] # 0 }

\* Faulty variant: the archive is looked up by the id of the record, also
\* when the record has no artifact_path.
_restore_snapshot_IgnoresPath(st, t, state, done) ==
    IF state.id \notin DOMAIN st.archives
    THEN [tree |-> t, ok |-> FALSE]
    ELSE LET zip == st.archives[state.id]
         IN IF ~zip.valid
            THEN [tree |-> t, ok |-> FALSE]
            ELSE IF done # Files
            THEN [tree |-> ExtractSome(t, zip, done), ok |-> FALSE]
            ELSE [tree |-> ExtractAll(t, zip), ok |-> TRUE]

\* _restore_snapshot(state): the tree afterwards and the returned boolean.
\* done = Files: the extraction completes; otherwise it raises after writing
\* the files in done.
_restore_snapshot(st, t, state, done) ==
    IF ~state.art
    THEN [tree |-> t, ok |-> FALSE]
    ELSE IF state.id \notin DOMAIN st.archives
    THEN [tree |-> t, ok |-> FALSE]
    ELSE LET zip == st.archives[state.id]
         IN IF ~zip.valid
            THEN [tree |-> t, ok |-> FALSE]
            ELSE IF done # Files
            THEN [tree |-> ExtractSome(t, zip, done), ok |-> FALSE]
            ELSE [tree |-> ExtractAll(t, zip), ok |-> TRUE]

\* Faulty variant: a failed callback is compensated by putting the files
\* back as they were before the restore.
rollback_to_previous_UndoOnFailure(st, t, callback, done) ==
    LET previous == get_previous_deployment(st)
    IN IF previous = <<>>
       THEN [tree |-> t, trace |-> <<>>, result |-> "false"]
       ELSE LET r == _restore_snapshot(st, t, previous[1], done)
                restored == <<[step |-> "restore_snapshot",
                               out |-> IF r.ok THEN "true" ELSE "false"]>>
            IN IF ~r.ok
               THEN [tree |-> r.tree, trace |-> restored, result |-> "false"]
               ELSE IF callback = "none"
               THEN [tree |-> r.tree, trace |-> restored, result |-> "true"]
               ELSE [tree |-> IF callback = "true" THEN r.tree ELSE t,
                     trace |-> restored \o <<[step |-> "deploy_callback",
                                              out |-> callback,
                                              arg |-> previous[1]]>>,
                     result |-> IF callback = "true" THEN "true" ELSE "false"]

\* Faulty variant: the callback is invoked before anything is restored, also
\* when there is nothing to restore.
rollback_to_previous_CallbackFirst(st, t, callback, done) ==
    LET previous == get_previous_deployment(st)
        called == IF callback = "none" THEN <<>>
                  ELSE <<[step |-> "deploy_callback", out |-> callback,
                          arg |-> previous]>>
    IN IF previous = <<>>
       THEN [tree |-> t, trace |-> called, result |-> "false"]
       ELSE LET r == _restore_snapshot(st, t, previous[1], done)
            IN [tree |-> r.tree,
                trace |-> called \o <<[step |-> "restore_snapshot",
                                       out |-> IF r.ok THEN "true" ELSE "false"]>>,
                result |-> IF r.ok /\ callback \in {"none", "true"}
                           THEN "true" ELSE "false"]

\* rollback_to_previous(deploy_callback): the tree afterwards, the steps
\* taken and the returned boolean.  callback: "none" (no callback given),
\* or what the callback does: "true", "false", "raise".
rollback_to_previous(st, t, callback, done) ==
    LET previous == get_previous_deployment(st)
    IN IF previous = <<>>
       THEN [tree |-> t, trace |-> <<>>, result |-> "false"]
       ELSE LET r == _restore_snapshot(st, t, previous[1], done)
                restored == <<[step |-> "restore_snapshot",
                               out |-> IF r.ok THEN "true" ELSE "false"]>>
            IN IF ~r.ok
               THEN [tree |-> r.tree, trace |-> restored, result |-> "false"]
               ELSE IF callback = "none"
               THEN [tree |-> r.tree, trace |-> restored, result |-> "true"]
               ELSE [tree |-> r.tree,
                     trace |-> restored \o <<[step |-> "deploy_callback",
                                              out |-> callback,
                                              arg |-> previous[1]]>>,
                     result |-> IF callback = "true" THEN "true" ELSE "false"]

(***************************************************************************)
(* SystemChecker.check_dependency_pinning (checkers/system_checker.py).    *)
(* A line of requirements.txt is a sequence of characters.                 *)
(***************************************************************************)
\* The version operators of line 130, as the code lists them.
VersionOperators ==
    << <<"=", "=">>, <<">", "=">>, <<"<", "=">>, <<"~", "=">>, <<"=", "=", "=">> >>

\* str.strip() on the lines used here: leading and trailing blanks go.
RECURSIVE LStrip(_)
LStrip(line) ==
    IF line # <<>> /\ Head(line) = " " THEN LStrip(Tail(line)) ELSE line

RECURSIVE RStrip(_)
RStrip(line) ==
    IF line # <<>> /\ line[Len(line)] = " "
    THEN RStrip(SubSeq(line, 1, Len(line) - 1))
    ELSE line

Strip(line) == RStrip(LStrip(line))

\* str.startswith(prefix).
StartsWith(line, prefix) ==
    Len(prefix) <= Len(line) /\ SubSeq(line, 1, Len(prefix)) = prefix

\* op in line: op is a substring of the line.
Contains(line, op) ==
    \E i \in 1 .. Len(line) - Len(op) + 1 : SubSeq(line, i, i + Len(op) - 1) = op

\* The loop of lines 125-131: the lines counted and those counted as pinned.
RECURSIVE CountLines(_, _, _, _)
CountLines(lines, i, pinned, total) ==
    IF i > Len(lines)
    THEN [pinned |-> pinned, total |-> total]
    ELSE LET stripped == Strip(lines[i])
         IN IF stripped = <<>> \/ StartsWith(stripped, <<"#">>)
            THEN CountLines(lines, i + 1, pinned, total)
            ELSE IF \E k \in DOMAIN VersionOperators :
                        Contains(stripped, VersionOperators[k])
            THEN CountLines(lines, i + 1, pinned + 1, total + 1)
            ELSE CountLines(lines, i + 1, pinned, total + 1)

\* The significand of a Python float has 53 bits; the model rounds to
\* FloatBits bits in the same way (to nearest, ties to even), which keeps
\* the products below within the integers of the model checker.
FloatBits == 24

RECURSIVE Pow2(_)
Pow2(n) == IF n = 0 THEN 1 ELSE 2 * Pow2(n - 1)

\* a / b rounded to the nearest integer, ties to the even one.
RoundDiv(a, b) ==
    LET q == a \div b
        r == a % b
    IN IF 2 * r > b \/ (2 * r = b /\ q % 2 = 1) THEN q + 1 ELSE q

\* num doubled until num / den >= 2^(FloatBits - 1), and how often.
RECURSIVE Normalize(_, _, _)
Normalize(num, den, e) ==
    IF num >= den * Pow2(FloatBits - 1)
    THEN [num |-> num, e |-> e]
    ELSE Normalize(2 * num, den, e + 1)

\* The float num / den for 0 <= num <= den, den > 0: the value m * 2^(-e)
\* with 2^(FloatBits - 1) <= m < 2^FloatBits, or m = 0.  It is the result
\* of the division pinned / total and the value of the literal 0.6 (6 / 10).
Float(num, den) ==
    IF num = 0
    THEN [m |-> 0, e |-> 0]
    ELSE LET n == Normalize(num, den, 0)
             m == RoundDiv(n.num, den)
         IN IF m = Pow2(FloatBits)
            THEN [m |-> Pow2(FloatBits - 1), e |-> n.e - 1]
            ELSE [m |-> m, e |-> n.e]

\* x >= y on floats.
FloatGeq(x, y) ==
    CASE y.m = 0 -> TRUE
      [] x.m = 0 -> FALSE
      [] x.e # y.e -> x.e < y.e
      [] OTHER -> x.m >= y.m

\* Faulty variant: the threshold is exclusive.
RatioPasses_Exclusive(pinned, total) ==
    ~FloatGeq(Float(6, 10), Float(pinned, total))

\* Lines 142-143: ratio = pinned / total; ratio >= 0.6.
RatioPasses(pinned, total) == FloatGeq(Float(pinned, total), Float(6, 10))

\* check_dependency_pinning: the counts and CheckResult.passed.
check_dependency_pinning(req) ==
    IF ~req.exists
    THEN [pinned |-> 0, total |-> 0, passed |-> FALSE]
    ELSE LET n == CountLines(req.lines, 1, 0, 0)
         IN IF n.total = 0
            THEN [pinned |-> 0, total |-> 0, passed |-> FALSE]
            ELSE [pinned |-> n.pinned, total |-> n.total,
                  passed |-> RatioPasses(n.pinned, n.total)]

(***************************************************************************)
(* Deployer (main.py): pure parts.                                         *)
(***************************************************************************)
\* One step of a call and what it returned.
Step(name, out) == [step |-> name, out |-> out]

Bool(b) == IF b THEN "true" ELSE "false"

\* What the external capabilities do during one deploy call.
\* sys: SystemChecker.check_all reports "ready" or "notready", or raises
\* (its file reads are not guarded); validate, migrate, deploy: the booleans
\* returned by the platform's validate(), the migrator's run_migrations()
\* and the platform's deploy().
Outcomes ==
    [sys : {"ready", "notready", "raise"}, validate : BOOLEAN,
     migrate : BOOLEAN, deploy : BOOLEAN]

\* An outcome is drawn only for a step that can run: the others are TRUE.
Drawn(o, platform, run_migrations, cfg) ==
    /\ (o.sys # "ready" \/ cfg # "valid" \/ Lower(platform) \notin AVAILABLE_DEPLOYERS)
           => (o.validate /\ o.migrate /\ o.deploy)
    /\ ~o.validate => (o.migrate /\ o.deploy)
    /\ ~run_migrations => o.migrate

DrawnOutcomes(platform, run_migrations, cfg) ==
    { o \in Outcomes : Drawn(o, platform, run_migrations, cfg) }

\* The faults that can be drawn for the checkpoint step of a deploy: none
\* when the deploy cannot reach it.
DrawnFaults(o, budget) ==
    IF o.sys = "ready" /\ o.validate /\ o.deploy
    THEN { f \in CheckpointFaults : FaultCost(f) <= budget }
    ELSE {NoFault}

\* ConfigValidator.validate(self.config): "valid" passes, "invalid" returns
\* errors, "malformed" (a platform list with a non-string item) raises.
ConfigValidator_validate(cfg) ==
    CASE cfg = "valid" -> "true"
      [] cfg = "invalid" -> "false"
      [] OTHER -> "raised"

\* initialize_deployer(platform): is a deployer returned.
initialize_deployer(platform) == Lower(platform) \in AVAILABLE_DEPLOYERS

\* validate_deployment(platform): its steps and "true", "false" or "raised".
validate_deployment(platform, cfg, o) ==
    LET valid == ConfigValidator_validate(cfg)
        checked == <<Step("config_validate", valid)>>
    IN IF valid # "true"
       THEN [trace |-> checked, result |-> valid]
       ELSE IF ~initialize_deployer(platform)
       THEN [trace |-> checked \o <<Step("initialize_deployer", "none")>>,
             result |-> "false"]
       ELSE [trace |-> checked \o <<Step("initialize_deployer", "ok"),
                                    Step("platform_validate", Bool(o.validate))>>,
             result |-> Bool(o.validate)]

\* Faulty variant: the deploy is also stopped when the framework checker
\* failed in the last readiness check.
SystemGateAborts_OrFramework(sys) ==
    sys = "notready" \/ readiness = "framework_notready"

\* Faulty variant: the system gate is only advisory.
SystemGateAborts_Never(sys) == FALSE

\* The condition of line 299: the system gate stops the deploy.
SystemGateAborts(sys) == sys = "notready"

\* Faulty variant: the migration step is skipped.
MigrationSteps_Skipped(run_migrations, o) == <<>>

\* The migration step of lines 314-319: it runs when asked for, and its
\* result is only logged.
MigrationSteps(run_migrations, o) ==
    IF run_migrations THEN <<Step("run_migrations", Bool(o.migrate))>> ELSE <<>>

\* Faulty variant: a failed migration stops the deploy.
MigrationAborts_OnFailure(run_migrations, o) == run_migrations /\ ~o.migrate

\* Does a failed migration stop the deploy: lines 316-319 only log a warning.
MigrationAborts(run_migrations, o) == FALSE

\* Faulty variant: the result of the platform's deploy() is ignored.
PlatformDeployAborts_Unchecked(platform, o) == ~initialize_deployer(platform)

\* The condition of line 328: the platform deploy stops the deploy.
PlatformDeployAborts(platform, o) == ~initialize_deployer(platform) \/ ~o.deploy

\* What deploy returns after the checkpoint step (line 342).
DeployReturn(checkpoint_state) == "true"

\* A deploy call that ends before the checkpoint step.
Ended(st, steps, result) ==
    [store |-> st, trace |-> steps, result |-> result, created |-> FALSE, found |-> 0]

\* deploy(platform, run_migrations): the store afterwards, the steps taken,
\* the result ("true", "false", or "raised" for an exception that reaches
\* the caller) and whether create_checkpoint returned a state.
deploy(st, platform, run_migrations, cfg, t, clock, o, f) ==
    LET gate == <<Step("system_checks", o.sys)>>
    IN IF o.sys = "raise"
       THEN Ended(st, gate, "raised")
       ELSE IF SystemGateAborts(o.sys)
       THEN Ended(st, gate, "false")
       ELSE LET v == validate_deployment(platform, cfg, o)
            IN IF v.result # "true"
               THEN Ended(st, gate \o v.trace, v.result)
               ELSE LET migrated == gate \o v.trace \o MigrationSteps(run_migrations, o)
                        shipped == migrated \o <<Step("platform_deploy", Bool(o.deploy))>>
                    IN IF MigrationAborts(run_migrations, o)
                       THEN Ended(st, migrated, "false")
                       ELSE IF PlatformDeployAborts(platform, o)
                       THEN Ended(st, shipped, "false")
                       ELSE LET cp == create_checkpoint(st, platform, run_migrations,
                                                        t, clock, f)
                            IN [store |-> cp.store,
                                trace |-> shipped \o <<Step("create_checkpoint",
                                                            Bool(cp.state))>>,
                                result |-> DeployReturn(cp.state),
                                created |-> cp.state, found |-> cp.found]

\* Position of the first step named name in a trace, 0 if there is none.
RECURSIVE IndexFrom(_, _, _)
IndexFrom(steps, name, i) ==
    IF i > Len(steps) THEN 0
    ELSE IF steps[i].step = name THEN i
    ELSE IndexFrom(steps, name, i + 1)

Index(steps, name) == IndexFrom(steps, name, 1)

Has(steps, name) == Index(steps, name) # 0

Count(steps, name) == Cardinality({ i \in DOMAIN steps : steps[i].step = name })

OutOf(steps, name) == steps[Index(steps, name)].out

\* Faulty variant: the framework name is tested before the system checks
\* run, and an unknown framework returns an empty result list.
check_deployment_readiness_UnknownFirst(framework, sys, fw) ==
    LET system_ready == sys = "ready"
        sysres == <<[category |-> "system", passed |-> system_ready]>>
        gate == <<Step("system_checks", sys)>>
    IN IF Lower(framework) \notin AVAILABLE_CHECKERS
       THEN [trace |-> <<>>, result |-> "false", results |-> <<>>]
       ELSE IF sys = "raise"
       THEN [trace |-> gate, result |-> "raised", results |-> <<>>]
       ELSE [trace |-> gate \o <<Step("framework_checks", Bool(fw))>>,
             result |-> Bool(system_ready /\ fw),
             results |-> sysres \o <<[category |-> Lower(framework), passed |-> fw]>>]

\* Faulty variant: the flag returned is the framework checker's alone.
check_deployment_readiness_FrameworkOnly(framework, sys, fw) ==
    LET system_ready == sys = "ready"
        sysres == <<[category |-> "system", passed |-> system_ready]>>
        gate == <<Step("system_checks", sys)>>
    IN IF sys = "raise"
       THEN [trace |-> gate, result |-> "raised", results |-> <<>>]
       ELSE IF Lower(framework) \notin AVAILABLE_CHECKERS
       THEN [trace |-> gate, result |-> "false", results |-> sysres]
       ELSE [trace |-> gate \o <<Step("framework_checks", Bool(fw))>>,
             result |-> Bool(fw),
             results |-> sysres \o <<[category |-> Lower(framework), passed |-> fw]>>]

\* check_deployment_readiness(framework): its steps, the returned flag
\* ("raised" when the system checker raises) and the returned result list.
\* fw: does the framework checker pass.
check_deployment_readiness(framework, sys, fw) ==
    LET system_ready == sys = "ready"
        sysres == <<[category |-> "system", passed |-> system_ready]>>
        gate == <<Step("system_checks", sys)>>
    IN IF sys = "raise"
       THEN [trace |-> gate, result |-> "raised", results |-> <<>>]
       ELSE IF Lower(framework) \notin AVAILABLE_CHECKERS
       THEN [trace |-> gate, result |-> "false", results |-> sysres]
       ELSE [trace |-> gate \o <<Step("framework_checks", Bool(fw))>>,
             result |-> Bool(system_ready /\ fw),
             results |-> sysres \o <<[category |-> Lower(framework), passed |-> fw]>>]

\* The element of a set of one element.
Only(S) == CHOOSE x \in S : TRUE

\* The loop of deploy_to_multiple_platforms from element i on: one deploy
\* call per element, each on the store the call before it left, at the
\* second clocks[i], with the outcomes os[i] and the faults fs[i].  A deploy
\* that raises ends the loop, and the exception leaves the method.
RECURSIVE deploy_loop(_, _, _, _, _, _, _, _, _, _)
deploy_loop(st, platforms, run_migrations, cfg, t, clocks, os, fs, i, calls) ==
    IF i > Len(platforms)
    THEN [store |-> st, calls |-> calls, raised |-> FALSE]
    ELSE Only({
        LET call == [step |-> "deploy", arg |-> platforms[i], out |-> r.result,
                     inner |-> r.trace, created |-> r.created,
                     dir_before |-> st.dir]
        IN IF r.result = "raised"
           THEN [store |-> r.store, calls |-> Append(calls, call), raised |-> TRUE]
           ELSE deploy_loop(r.store, platforms, run_migrations, cfg, t, clocks,
                            os, fs, i + 1, Append(calls, call))
        : r \in {deploy(st, platforms[i], run_migrations, cfg, t, clocks[i],
                        os[i], fs[i])} })

\* The position of the last call made for the platform name p.
LastCallFor(calls, p) ==
    CHOOSE i \in DOMAIN calls :
        /\ calls[i].arg = p
        /\ \A j \in DOMAIN calls : calls[j].arg = p => j <= i

\* The dictionary built by results[platform] = self.deploy(...): a later
\* call for the same name replaces the entry of an earlier one.
ResultsOf(calls) ==
    [p \in { calls[i].arg : i \in DOMAIN calls } |-> calls[LastCallFor(calls, p)].out]

\* deploy_to_multiple_platforms(platforms, run_migrations): the store
\* afterwards, the deploy calls made, and the returned dictionary (or
\* "raised" for an exception that reaches the caller).
deploy_to_multiple_platforms(st, platforms, run_migrations, cfg, t, clocks, os, fs) ==
    Only({ [store |-> loop.store, calls |-> loop.calls,
            result |-> IF loop.raised THEN "raised" ELSE "dict",
            results |-> IF loop.raised THEN <<>> ELSE ResultsOf(loop.calls)]
           : loop \in {deploy_loop(st, platforms, run_migrations, cfg, t, clocks,
                                   os, fs, 1, <<>>)} })

\* The steps recorded for a deploy_to_multiple_platforms call: its
\* argument, one step per deploy call made (with the platform passed, what
\* deploy returned and the steps deploy took), and the returned dictionary.
MultiSteps(platforms, r) ==
    <<Step("platforms", platforms)>> \o r.calls \o
    (IF r.result = "raised" THEN <<>> ELSE <<Step("return", r.results)>>)

\* Faulty variant: the callback redeploys through Deployer.deploy, with its
\* system gate, validation and checkpoint steps.
_redeploy_previous_ThroughDeploy(st, state, shipped, t, clock) ==
    LET r == deploy(st, state.platform, FALSE, "valid", t, clock,
                    [sys |-> "ready", validate |-> TRUE, migrate |-> TRUE,
                     deploy |-> shipped = "true"], NoFault)
    IN [store |-> r.store, out |-> IF shipped = "raise" THEN "raise" ELSE r.result,
        trace |-> r.trace]

\* _redeploy_previous(state), the callback of Deployer.rollback: the
\* platform's deployer is looked up or initialized and its rollback(state)
\* runs its deploy action, which returns shipped ("true", "false") or
\* raises ("raise").  The store afterwards, what the callback does and the
\* steps taken.
_redeploy_previous(st, state, shipped, t, clock) ==
    IF ~initialize_deployer(state.platform)
    THEN [store |-> st, out |-> "false",
          trace |-> <<Step("initialize_deployer", "false")>>]
    ELSE [store |-> st, out |-> shipped,
          trace |-> <<Step("initialize_deployer", "true"),
                      Step("platform_deploy", shipped)>>]

\* Deployer.rollback(): rollback_to_previous with _redeploy_previous as the
\* callback.  The store and the tree afterwards, the steps of
\* rollback_to_previous, those of the callback when it ran, and the
\* returned boolean.
rollback(st, t, clock, shipped, done) ==
    LET previous == get_previous_deployment(st)
    IN IF previous = <<>>
       THEN [store |-> st, tree |-> t, trace |-> <<>>, inner |-> <<>>,
             result |-> "false"]
       ELSE LET restored == _restore_snapshot(st, t, previous[1], done)
                cb == _redeploy_previous(st, previous[1], shipped, restored.tree, clock)
                r == rollback_to_previous(st, t, cb.out, done)
                called == Has(r.trace, "deploy_callback")
            IN [store |-> IF called THEN cb.store ELSE st,
                tree |-> r.tree,
                trace |-> r.trace,
                inner |-> IF called THEN cb.trace ELSE <<>>,
                result |-> r.result]

(***************************************************************************)
(* Command line (cli.py): pure parts.                                      *)
(***************************************************************************)
\* What a command of the wizard did: the store afterwards, its steps,
\* whether an exception left it, and how many checkpoints it created.
Ran(st, steps, raised, created) ==
    [store |-> st, trace |-> steps, raised |-> raised, created |-> created]

\* The readiness check the wizards deploy() and multi_deploy() start with
\* (lines 137-141 and 175-179): its step, and whether the wizard goes on.
WizardCheck(framework, sys, fw) ==
    LET c == check_deployment_readiness(framework, sys, fw)
    IN [trace |-> <<Step("check_deployment_readiness", c.result)>> \o
                  (IF c.result = "false"
                   THEN <<Step("print", "Application not ready for deployment")>>
                   ELSE <<>>),
        result |-> c.result]

\* cli.deploy(): the readiness check, then Deployer.deploy for the chosen
\* platform, whose boolean only selects the message printed.
cli_deploy(st, framework, platform, run_migrations, cfg, t, clock, o, fw, f) ==
    LET c == WizardCheck(framework, o.sys, fw)
    IN IF c.result # "true"
       THEN Ran(st, c.trace, c.result = "raised", 0)
       ELSE Only({
            Ran(d.store,
                c.trace \o <<[step |-> "deploy", out |-> d.result,
                              inner |-> d.trace]>> \o
                (CASE d.result = "true" -> <<Step("print", "DEPLOYMENT SUCCESSFUL")>>
                   [] d.result = "false" -> <<Step("print", "DEPLOYMENT FAILED")>>
                   [] OTHER -> <<>>),
                d.result = "raised",
                IF d.created THEN 1 ELSE 0)
            : d \in {deploy(st, platform, run_migrations, cfg, t, clock, o, f)} })

\* cli.multi_deploy() for a non-empty selection: the readiness check, then
\* Deployer.deploy_to_multiple_platforms, whose dictionary is only printed.
\* m: what deploy_to_multiple_platforms does, created: the checkpoints it
\* creates.
cli_multi_deploy(st, framework, platforms, sys, fw, m, created) ==
    LET c == WizardCheck(framework, sys, fw)
    IN IF c.result # "true"
       THEN Ran(st, c.trace, c.result = "raised", 0)
       ELSE Ran(m.store,
                c.trace \o <<[step |-> "deploy_to_multiple_platforms",
                              out |-> m.result, inner |-> MultiSteps(platforms, m)]>> \o
                (IF m.result = "raised" THEN <<>>
                 ELSE <<Step("print", m.results)>>),
                m.result = "raised",
                created)

\* cmd_run(args): the value it returns; it returns 0 whatever the wizard
\* did (line 417), unless an exception leaves the wizard.
cmd_run(ran) == IF ran.raised THEN "raised" ELSE "0"

\* cmd_rollback(args) once the user confirmed: rollback_to_previous() is
\* called without a callback and its boolean is dropped (line 451); the
\* message and the value returned depend only on whether it raised.
cmd_rollback(st, t, done) ==
    LET r == rollback_to_previous(st, t, "none", done)
    IN [tree |-> r.tree,
        trace |-> <<[step |-> "rollback_to_previous", out |-> r.result,
                     inner |-> r.trace],
                    Step("print", "ROLLBACK SUCCESSFUL")>>,
        returned |-> "0"]

\* main(): the exit status of the process, the value the command returned,
\* or 1 when an exception left the command (lines 499-506).
main(returned) == IF returned = "raised" THEN "1" ELSE returned

(***************************************************************************)
(* State machine.                                                          *)
(***************************************************************************)
\* The record of a call: the operation, its arguments (platform, framework
\* or what the deploy_callback does, run_migrations, keep_count), the steps
\* it took and what it
\* returned; the project tree before the call; the number of sidecars its
\* retention sweep found; and, for clean_old_deployments, whether the call
\* before it was clean_old_deployments with the same keep_count, and for
\* Deployer.rollback, whether the call before it was Deployer.rollback.
Call(op, name, run_migrations, keep_count, steps, result, found) ==
    [op |-> op, platform |-> name, run_migrations |-> run_migrations,
     keep_count |-> keep_count, trace |-> steps, result |-> result,
     tree_before |-> tree, found |-> found,
     again |-> /\ op \in {"clean_old_deployments", "deployer_rollback"}
               /\ last.op = op
               /\ last.keep_count = keep_count]

CurrentStore == Store(deploymentDir, artifactsDir, sidecars, archives)

SetStore(st) ==
    /\ deploymentDir' = st.dir
    /\ artifactsDir' = st.artdir
    /\ sidecars' = st.sidecars
    /\ archives' = st.archives

\* The processes that run create_checkpoint on the project root.
Procs == {"A", "B"}

\* A process that runs no create_checkpoint.
Idle == [pc |-> "idle", id |-> <<"", 0>>, state |-> <<>>, keep |-> {}, removed |-> {}]

\* A Deployer (or a RollbackManager) just constructed on a project that has
\* no deployment history yet.
Init ==
    /\ tree = InitialTree
    /\ deploymentDir = FALSE
    /\ artifactsDir = FALSE
    /\ sidecars = <<>>
    /\ archives = <<>>
    /\ now = 0
    /\ config \in Configs
    /\ requirements = HealthyRequirements
    /\ ops = [p \in Procs |-> Idle]
    /\ readiness = "none"
    /\ ncreated = 0
    /\ faults = 0
    /\ mutations = 0
    /\ last = [op |-> "init", platform |-> "", run_migrations |-> FALSE,
               keep_count |-> 0, trace |-> <<>>, result |-> "none",
               tree_before |-> InitialTree, found |-> 0, again |-> FALSE]

\* A second passes.
Tick ==
    /\ now < MaxTime
    /\ now' = now + 1
    /\ UNCHANGED <<tree, storeVars, config, requirements, ops, readiness, ncreated, faults, mutations, last>>

\* The developer writes, changes or deletes a file of the project.
MutateTree ==
    \E f \in Files, c \in {0} \cup Contents :
        /\ mutations < MaxMutations
        /\ tree[f] # c
        /\ tree' = [tree EXCEPT ![f] = c]
        /\ mutations' = mutations + 1
        /\ last' = Call("edit", "", FALSE, 0, <<>>, "none", 0)
        /\ UNCHANGED <<storeVars, now, config, requirements, ops, readiness, ncreated, faults>>

\* What the caller knows after a readiness check that returned result: sys
\* is what the system gate reported, checked whether a framework checker
\* ran.  A check that raised tells nothing new.
ReadinessAfter(result, sys, checked) ==
    CASE result = "raised" -> readiness
      [] result = "true" -> "ready"
      [] sys = "ready" /\ checked -> "framework_notready"
      [] OTHER -> "notready"

\* Deployer.check_deployment_readiness(framework).
CheckReadiness ==
    \E framework \in FrameworkInputs, sys \in {"ready", "notready", "raise"},
       fw \in BOOLEAN :
        LET r == check_deployment_readiness(framework, sys, fw)
        IN /\ readiness' = ReadinessAfter(r.result, sys, Has(r.trace, "framework_checks"))
           /\ last' = Call("check", framework, FALSE, 0,
                           IF r.result = "raised" THEN r.trace
                           ELSE r.trace \o <<Step("return", r.results)>>,
                           r.result, 0)
           /\ UNCHANGED <<tree, storeVars, now, config, requirements, ops, ncreated, faults,
                          mutations>>

\* Deployer.deploy(platform, run_migrations).
Deploy ==
    \E platform \in PlatformInputs, run_migrations \in BOOLEAN :
    \E o \in DrawnOutcomes(platform, run_migrations, config) :
    \E f \in DrawnFaults(o, MaxFaults - faults) :
        LET r == deploy(CurrentStore, platform, run_migrations, config, tree, now, o, f)
            checkpointed == Has(r.trace, "create_checkpoint")
        IN /\ ~checkpointed => f = NoFault
           /\ r.created => ncreated < MaxDeploys
           /\ f.mkdir = "fail" => ~deploymentDir
           /\ SetStore(r.store)
           /\ ncreated' = IF r.created THEN ncreated + 1 ELSE ncreated
           /\ faults' = faults + FaultCost(f)
           /\ last' = Call("deploy", platform, run_migrations, 0, r.trace, r.result,
                           r.found)
           /\ UNCHANGED <<tree, now, config, requirements, ops, readiness, mutations>>

\* RollbackManager.create_checkpoint(platform), called directly, while fewer
\* than limit checkpoints have been created, with a platform of platforms.
CreateCheckpointUpTo(platforms, limit) ==
    \E platform \in platforms, f \in CheckpointFaults :
        LET r == create_checkpoint(CurrentStore, platform, FALSE, tree, now, f)
        IN /\ ncreated < limit
           /\ faults + FaultCost(f) <= MaxFaults
           /\ f.mkdir = "fail" => ~deploymentDir
           /\ SetStore(r.store)
           /\ ncreated' = IF r.state THEN ncreated + 1 ELSE ncreated
           /\ faults' = faults + FaultCost(f)
           /\ last' = Call("create_checkpoint", platform, FALSE, 0, r.trace,
                           IF r.state THEN "state" ELSE "none", r.found)
           /\ UNCHANGED <<tree, now, config, requirements, ops, readiness, mutations>>

\* RollbackManager.clean_old_deployments(keep_count), called directly.
CleanOldDeployments ==
    \E keep_count \in (0 .. MaxKeep) \cup {DefaultKeepCount} :
        /\ SetStore(clean_old_deployments(CurrentStore, keep_count))
        /\ last' = Call("clean_old_deployments", "", FALSE, keep_count, <<>>, "none",
                        IF deploymentDir THEN Len(sidecars) ELSE 0)
        /\ UNCHANGED <<tree, now, config, requirements, ops, readiness, ncreated, faults, mutations>>

\* RollbackManager.rollback_to_previous(deploy_callback), called directly.
RollbackToPrevious ==
    \E callback \in {"none", "true", "false", "raise"}, done \in SUBSET Files :
        LET previous == get_previous_deployment(CurrentStore)
            extracting == /\ previous # <<>>
                          /\ previous[1].art
                          /\ previous[1].id \in DOMAIN archives
                          /\ archives[previous[1].id].valid
            r == rollback_to_previous(CurrentStore, tree, callback, done)
        IN /\ done # Files =>
                /\ extracting
                /\ faults < MaxFaults
                /\ done \subseteq Members(archives[previous[1].id])
           /\ tree' = r.tree
           /\ faults' = IF done # Files THEN faults + 1 ELSE faults
           /\ last' = Call("rollback", callback, FALSE, 0, r.trace, r.result, 0)
           /\ UNCHANGED <<storeVars, now, config, requirements, ops, readiness, ncreated, mutations>>

\* The steps of create_checkpoint(platform) as process p runs them, each
\* one filesystem operation.  Begin: the id and the record are made
\* (create_checkpoint) and .deployment is created (save_deployment_state).
BeginCheckpoint(p) ==
    \E platform \in PlatformInputs :
        LET id == _generate_deployment_id(platform, now)
        IN /\ ops[p].pc = "idle"
           /\ ncreated + Cardinality({q \in Procs : ops[q].pc # "idle"}) < MaxSnapshots
           /\ deploymentDir' = TRUE
           /\ ops' = [ops EXCEPT ![p] =
                        [pc |-> "snapshot", id |-> id,
                         state |-> <<[id |-> id, platform |-> Lower(platform),
                                      art |-> FALSE, ok |-> TRUE,
                                      run_migrations |-> FALSE, src |-> tree]>>,
                         keep |-> {}, removed |-> {}]]
           /\ last' = Call("begin_checkpoint", platform, FALSE, 0, <<>>, "none", 0)
           /\ UNCHANGED <<tree, artifactsDir, sidecars, archives, now, config,
                          requirements, readiness, ncreated, faults, mutations>>

\* _create_project_snapshot writes the archive; the record gets its
\* artifact_path.
WriteArchive(p) ==
    LET snap == _create_project_snapshot(CurrentStore, ops[p].id, tree, "ok")
    IN /\ ops[p].pc = "snapshot"
       /\ SetStore(snap.store)
       /\ ops' = [ops EXCEPT ![p].pc = "write",
                             ![p].state = <<[@[1] EXCEPT !.art = snap.path]>>]
       /\ last' = Call("write_archive", ops[p].state[1].platform, FALSE, 0, <<>>,
                       "none", 0)
       /\ UNCHANGED <<tree, now, config, requirements, readiness, ncreated, faults,
                      mutations>>

\* json.dump writes the sidecar; save_deployment_state returns True.
WriteState(p) ==
    /\ ops[p].pc = "write"
    /\ sidecars' = WriteSidecar(sidecars, ops[p].state[1])
    /\ ops' = [ops EXCEPT ![p].pc = "sweep"]
    /\ ncreated' = ncreated + 1
    /\ last' = Call("write_state", ops[p].state[1].platform, FALSE, 0, <<>>, "none", 0)
    /\ UNCHANGED <<tree, deploymentDir, artifactsDir, archives, now, config,
                   requirements, readiness, faults, mutations>>

\* Faulty variant: the sweep deletes the archives of the sidecars it
\* deleted, and no other.
SweptArchives_OfRemoved(zips, keep, removed) == Restrict(zips, (DOMAIN zips) \ removed)

\* The archives the sweep leaves: those whose stem is in files_to_keep.
SweptArchives(zips, keep, removed) == Restrict(zips, keep)

\* clean_old_deployments, first half: the sidecars are listed,
\* files_to_keep is computed and the older sidecars are deleted.
SweepSidecars(p) ==
    LET kept == Newest(sidecars, DefaultKeepCount)
    IN /\ ops[p].pc = "sweep"
       /\ sidecars' = kept
       /\ ops' = [ops EXCEPT ![p].pc = "sweep_archives",
                             ![p].keep = Ids(kept),
                             ![p].removed = Ids(sidecars) \ Ids(kept)]
       /\ last' = Call("sweep_sidecars", ops[p].state[1].platform, FALSE,
                       DefaultKeepCount, <<>>, "none", Len(sidecars))
       /\ UNCHANGED <<tree, deploymentDir, artifactsDir, archives, now, config,
                      requirements, readiness, ncreated, faults, mutations>>

\* clean_old_deployments, second half: the archives are listed and those
\* not in files_to_keep are deleted; create_checkpoint returns the state.
SweepArchives(p) ==
    /\ ops[p].pc = "sweep_archives"
    /\ archives' = IF artifactsDir
                   THEN SweptArchives(archives, ops[p].keep, ops[p].removed)
                   ELSE archives
    /\ ops' = [ops EXCEPT ![p] = Idle]
    /\ last' = Call("sweep_archives", ops[p].state[1].platform, FALSE,
                    DefaultKeepCount, <<>>, "state", 0)
    /\ UNCHANGED <<tree, deploymentDir, artifactsDir, sidecars, now, config,
                   requirements, readiness, ncreated, faults, mutations>>

\* Deployer.rollback().
DeployerRollback ==
    \E shipped \in {"true", "false", "raise"}, done \in SUBSET Files :
        LET previous == get_previous_deployment(CurrentStore)
            extracting == /\ previous # <<>>
                          /\ previous[1].art
                          /\ previous[1].id \in DOMAIN archives
                          /\ archives[previous[1].id].valid
            r == rollback(CurrentStore, tree, now, shipped, done)
        IN /\ done # Files =>
                /\ extracting
                /\ faults < MaxFaults
                /\ done \subseteq Members(archives[previous[1].id])
           /\ SetStore(r.store)
           /\ tree' = r.tree
           /\ faults' = IF done # Files THEN faults + 1 ELSE faults
           /\ last' = Call("deployer_rollback", shipped, FALSE, 0,
                           r.trace \o r.inner, r.result, 0)
           /\ UNCHANGED <<now, config, requirements, ops, readiness, ncreated, mutations>>

\* RollbackManager.get_previous_deployment(), called directly: the record it
\* returns is kept as the single step of the call.
GetPreviousDeployment ==
    LET previous == get_previous_deployment(CurrentStore)
    IN /\ last' = Call("get_previous_deployment", "", FALSE, 0,
                       IF previous = <<>> THEN <<>>
                       ELSE <<[step |-> "return", out |-> previous[1]]>>,
                       IF previous = <<>> THEN "none" ELSE "state",
                       IF deploymentDir THEN Len(sidecars) ELSE 0)
       /\ UNCHANGED <<tree, storeVars, now, config, requirements, ops, readiness, ncreated, faults,
                      mutations>>

\* An archive disappears from .deployment/artifacts behind the manager's
\* back (the case _restore_snapshot tests with artifact_path.exists()).
LoseArchive ==
    \E id \in DOMAIN archives :
        /\ faults < MaxFaults
        /\ archives' = [i \in (DOMAIN archives) \ {id} |-> archives[i]]
        /\ faults' = faults + 1
        /\ last' = Call("lose_archive", "", FALSE, 0, <<>>, "none", 0)
        /\ UNCHANGED <<tree, deploymentDir, artifactsDir, sidecars, now, config,
                       requirements, ops, readiness, ncreated, mutations>>

\* The outcome drawn for a deploy call that is never made.
Quiet == [sys |-> "ready", validate |-> TRUE, migrate |-> TRUE, deploy |-> TRUE]

RECURSIVE Sum(_, _)
Sum(costs, i) == IF i = 0 THEN 0 ELSE costs[i] + Sum(costs, i - 1)

\* The fault costs of the deploy calls of a list, added up.
TotalCost(fs) == Sum([i \in DOMAIN fs |-> FaultCost(fs[i])], Len(fs))

\* The outcomes, faults and seconds that can be drawn for the deploy calls
\* of a list from element i on, the calls before it having left the store
\* st, ended in second clock and taken spent faults: os, fs and clocks
\* are what was drawn for the elements before i.  The first call starts
\* now, each later one in the second the one before it ended in or in the
\* next.  Nothing is drawn for a deploy call that is not made (a call that
\* raised ends the loop), and no fault for a checkpoint step that does not
\* run.
RECURSIVE Draws(_, _, _, _, _, _, _, _, _)
Draws(platforms, run_migrations, i, st, clock, spent, os, fs, clocks) ==
    IF i > Len(platforms)
    THEN {[os |-> os, fs |-> fs, clocks |-> clocks]}
    ELSE UNION { UNION { UNION {
           IF /\ ~Has(r.trace, "create_checkpoint") => f = NoFault
              /\ f.mkdir = "fail" => ~st.dir
           THEN IF r.result = "raised"
                THEN {[os |-> os \o <<o>> \o [k \in 1 .. Len(platforms) - i |-> Quiet],
                       fs |-> fs \o <<f>> \o [k \in 1 .. Len(platforms) - i |-> NoFault],
                       clocks |-> clocks \o <<c>> \o [k \in 1 .. Len(platforms) - i |-> c]]}
                ELSE Draws(platforms, run_migrations, i + 1, r.store, c,
                           spent + FaultCost(f), Append(os, o), Append(fs, f),
                           Append(clocks, c))
           ELSE {}
        : r \in {deploy(st, platforms[i], run_migrations, config, tree, c, o, f)} }
        : f \in DrawnFaults(o, MaxFaults - faults - spent) }
        : c \in (IF i = 1 THEN {clock} ELSE {clock, clock + 1}) \cap (0 .. MaxTime),
          o \in DrawnOutcomes(platforms[i], run_migrations, config) }

\* What deploy_to_multiple_platforms(platforms, run_migrations) can do in
\* the current state: for every draw, the result of the call, the faults it
\* took, the second it ended in and the checkpoints it created.
MultiRuns(platforms, run_migrations) ==
    UNION {
      { [r |-> r, cost |-> TotalCost(d.fs),
         clock |-> IF r.calls = <<>> THEN now ELSE d.clocks[Len(r.calls)],
         created |-> Cardinality({ i \in DOMAIN r.calls : r.calls[i].created })]
        : r \in {deploy_to_multiple_platforms(CurrentStore, platforms, run_migrations,
                                              config, tree, d.clocks, d.os, d.fs)} }
      : d \in Draws(platforms, run_migrations, 1, CurrentStore, now, 0,
                    <<>>, <<>>, <<>>) }

\* Deployer.deploy_to_multiple_platforms(platforms, run_migrations), the
\* first call made on a Deployer just constructed.
DeployToMultiple ==
    /\ last.op = "init"
    /\ \E platforms \in PlatformLists, run_migrations \in BOOLEAN :
       \E run \in MultiRuns(platforms, run_migrations) :
           /\ SetStore(run.r.store)
           /\ now' = run.clock
           /\ ncreated' = ncreated + run.created
           /\ faults' = faults + run.cost
           /\ last' = Call("deploy_to_multiple", "", run_migrations, 0,
                           MultiSteps(platforms, run.r), run.r.result, 0)
           /\ UNCHANGED <<tree, config, requirements, ops, readiness, mutations>>

\* The platforms and frameworks the wizards of the command line offer, in
\* lower case (cli.py 132-135, 143-146, 182-193), as far as the model has
\* them; a selection may name a platform more than once.
WizardPlatforms == {"render"}

WizardFrameworks == {"flask", "django"}

WizardSelections == UNION { [1 .. n -> WizardPlatforms] : n \in 1 .. MaxPlatforms }

\* The command "run": the wizard for one platform.
CmdRunSingle ==
    \E framework \in WizardFrameworks, platform \in WizardPlatforms,
       run_migrations \in BOOLEAN, fw \in BOOLEAN :
    \E o \in DrawnOutcomes(platform, run_migrations, config) :
    \E f \in DrawnFaults(o, MaxFaults - faults) :
    \E ran \in {cli_deploy(CurrentStore, framework, platform, run_migrations,
                           config, tree, now, o, fw, f)} :
        LET deployed == Has(ran.trace, "deploy")
            checkpointed == /\ deployed
                            /\ Has(ran.trace[Index(ran.trace, "deploy")].inner,
                                    "create_checkpoint")
        IN /\ ~deployed => (o = [Quiet EXCEPT !.sys = o.sys] /\ ~run_migrations)
           /\ (o.sys # "ready" \/ deployed) => fw
           /\ ~checkpointed => f = NoFault
           /\ f.mkdir = "fail" => ~deploymentDir
           /\ ran.created > 0 => ncreated < MaxSnapshots
           /\ SetStore(ran.store)
           /\ ncreated' = ncreated + ran.created
           /\ faults' = faults + FaultCost(f)
           /\ readiness' = ReadinessAfter(ran.trace[1].out, o.sys, TRUE)
           /\ last' = Call("cmd_run", platform, run_migrations, 0, ran.trace,
                           main(cmd_run(ran)), 0)
           /\ UNCHANGED <<tree, now, config, requirements, ops, mutations>>

\* The command "run --multi": the wizard for several platforms, as the
\* first command of a session.
CmdRunMulti ==
    /\ last.op = "init"
    /\ \E framework \in WizardFrameworks, platforms \in WizardSelections,
          run_migrations \in BOOLEAN, fw \in BOOLEAN,
          sys \in {"ready", "notready", "raise"} :
       \E run \in IF sys = "ready" /\ fw
                   THEN MultiRuns(platforms, run_migrations)
                   ELSE MultiRuns(<<>>, FALSE) :
       \E ran \in {cli_multi_deploy(CurrentStore, framework, platforms, sys, fw,
                                     run.r, run.created)} :
           LET deployed == Has(ran.trace, "deploy_to_multiple_platforms")
           IN /\ ~deployed => (platforms = <<"render">> /\ ~run_migrations)
              /\ sys # "ready" => fw
              /\ deployed => run.r.calls[1].inner[1].out = sys
              /\ SetStore(ran.store)
              /\ now' = run.clock
              /\ ncreated' = ncreated + ran.created
              /\ faults' = faults + run.cost
              /\ readiness' = ReadinessAfter(ran.trace[1].out, sys, TRUE)
              /\ last' = Call("cmd_run", "", run_migrations, 0, ran.trace,
                              main(cmd_run(ran)), 0)
              /\ UNCHANGED <<tree, config, requirements, ops, mutations>>

\* The command "rollback": the user is asked to confirm; declining ends the
\* command with status 0 and nothing done.
CmdRollback ==
    \E confirmed \in BOOLEAN, done \in SUBSET Files :
        LET previous == get_previous_deployment(CurrentStore)
            extracting == /\ previous # <<>>
                          /\ previous[1].art
                          /\ previous[1].id \in DOMAIN archives
                          /\ archives[previous[1].id].valid
            r == cmd_rollback(CurrentStore, tree, done)
        IN /\ ~confirmed => done = Files
           /\ done # Files =>
                /\ extracting
                /\ faults < MaxFaults
                /\ done \subseteq Members(archives[previous[1].id])
           /\ tree' = IF confirmed THEN r.tree ELSE tree
           /\ faults' = IF done # Files THEN faults + 1 ELSE faults
           /\ last' = Call("cmd_rollback", "", FALSE, 0,
                           IF confirmed THEN r.trace
                           ELSE <<Step("print", "Rollback cancelled")>>,
                           main(IF confirmed THEN r.returned ELSE "0"), 0)
           /\ UNCHANGED <<storeVars, now, config, requirements, ops, readiness, ncreated,
                          mutations>>

\* SystemChecker.check_dependency_pinning() on the project's
\* requirements.txt.
CheckDependencyPinning ==
    LET r == check_dependency_pinning(requirements)
    IN /\ last' = Call("check_dependency_pinning", "", FALSE, 0,
                       <<Step("count", [pinned |-> r.pinned, total |-> r.total])>>,
                       Bool(r.passed), 0)
       /\ UNCHANGED <<tree, storeVars, now, config, requirements, ops, readiness,
                      ncreated, faults, mutations>>

CreateCheckpoint == CreateCheckpointUpTo({"render", "Render"}, MaxCheckpoints)

\* create_checkpoint for platform names that differ in case only and that
\* differ.
CreateNamedCheckpoint ==
    CreateCheckpointUpTo({"render", "Render", "aws"}, MaxSnapshots)

\* The developer changes the application's source file.
EditApp ==
    \E c \in Contents :
        /\ mutations < MaxMutations
        /\ tree[AppPy] # c
        /\ tree' = [tree EXCEPT ![AppPy] = c]
        /\ mutations' = mutations + 1
        /\ last' = Call("edit", "", FALSE, 0, <<>>, "none", 0)
        /\ UNCHANGED <<storeVars, now, config, requirements, ops, readiness, ncreated, faults>>

\* A second passes, of no more seconds than checkpoints are created.
TickBetweenCheckpoints == now < MaxSnapshots /\ Tick

TakeSnapshot == CreateCheckpointUpTo(PlatformInputs, MaxSnapshots)

\* A session with the orchestrator.
Next == CheckReadiness \/ Deploy

Spec == Init /\ [][Next]_vars

\* A session with the snapshot store alone.
InitStore == Init /\ config = "valid"

NextStore == Tick \/ CreateCheckpoint \/ CleanOldDeployments

SpecStore == InitStore /\ [][NextStore]_vars

\* Checkpoints of a project that is being edited, and rollbacks to them.
NextRestore == MutateTree \/ TakeSnapshot \/ RollbackToPrevious

SpecRestore == InitStore /\ [][NextRestore]_vars

\* Rollbacks on a history that is written, read and damaged.
NextRollback ==
    \/ MutateTree
    \/ TakeSnapshot
    \/ RollbackToPrevious
    \/ GetPreviousDeployment
    \/ LoseArchive

SpecRollback == InitStore /\ [][NextRollback]_vars

\* A history that is written, swept and rolled back to.
NextHistory == TakeSnapshot \/ CleanOldDeployments \/ RollbackToPrevious

SpecHistory == InitStore /\ [][NextHistory]_vars

\* A session in which the orchestrator deploys to lists of platforms.
NextMulti == DeployToMultiple

SpecMulti == Init /\ [][NextMulti]_vars

\* The dependency-pinning check on projects with any requirements.txt.
InitPinning ==
    /\ tree = InitialTree
    /\ deploymentDir = FALSE
    /\ artifactsDir = FALSE
    /\ sidecars = <<>>
    /\ archives = <<>>
    /\ now = 0
    /\ config = "valid"
    /\ requirements \in RequirementsInputs
    /\ ops = [p \in Procs |-> Idle]
    /\ readiness = "none"
    /\ ncreated = 0
    /\ faults = 0
    /\ mutations = 0
    /\ last = [op |-> "init", platform |-> "", run_migrations |-> FALSE,
               keep_count |-> 0, trace |-> <<>>, result |-> "none",
               tree_before |-> InitialTree, found |-> 0, again |-> FALSE]

NextPinning == CheckDependencyPinning

SpecPinning == InitPinning /\ [][NextPinning]_vars

\* Checkpoints of several platforms, of a project that is edited, while
\* the clock runs.
NextIds == TickBetweenCheckpoints \/ EditApp \/ CreateNamedCheckpoint

SpecIds == InitStore /\ [][NextIds]_vars

\* Rollbacks, through the manager and through the Deployer, of a project
\* that is edited and checkpointed.
NextRedeploy ==
    \/ EditApp
    \/ TakeSnapshot
    \/ RollbackToPrevious
    \/ DeployerRollback

SpecRedeploy == InitStore /\ [][NextRedeploy]_vars

\* Two processes that run create_checkpoint on one project root, their
\* steps interleaved, and rollbacks.
NextOverlap ==
    \/ \E p \in Procs : BeginCheckpoint(p)
    \/ \E p \in Procs : WriteArchive(p)
    \/ \E p \in Procs : WriteState(p)
    \/ \E p \in Procs : SweepSidecars(p)
    \/ \E p \in Procs : SweepArchives(p)
    \/ EditApp
    \/ RollbackToPrevious

SpecOverlap == InitStore /\ [][NextOverlap]_vars

\* A session at the command line, on a project that is checkpointed.
NextCli == TakeSnapshot \/ CmdRunSingle \/ CmdRunMulti \/ CmdRollback

SpecCli == Init /\ [][NextCli]_vars

(***************************************************************************)
(* Properties of Deployer.deploy, checked under Spec.                      *)
(***************************************************************************)
\* The step after which a deploy call whose result is "false" ended.
LastStep(call) == call.trace[Len(call.trace)]

\* Is step a placed before step b in the trace (when both are there).
Before(steps, a, b) == (Has(steps, a) /\ Has(steps, b)) => Index(steps, a) < Index(steps, b)

IsDeploy(call) == call.op = "deploy"

GateFailed(call) ==
    IsDeploy(call) /\ OutOf(call.trace, "system_checks") = "notready"

\* C1: when the system checker reports not-ready, deploy returns false and
\* runs nothing after the system gate (no validation, migration, platform
\* deploy or checkpoint), and the sidecars and archives are what they were
\* before the call; this holds whatever an earlier readiness check returned.
C1_FatalSystemGate ==
    /\ [](GateFailed(last) => (last.result = "false" /\ Len(last.trace) = 1))
    /\ [][GateFailed(last') => UNCHANGED storeVars]_vars

\* C1 witness: a deploy stopped by the system gate after a readiness check
\* that reported ready and with a checkpoint already in the history.
C1_Witness ==
    /\ GateFailed(last)
    /\ readiness = "ready"
    /\ sidecars # <<>>

\* Did the deploy call end with false in validate_deployment or at the
\* platform's deploy().
DeployStageFailed(call) ==
    /\ IsDeploy(call)
    /\ call.result = "false"
    /\ LastStep(call).step \in {"config_validate", "initialize_deployer",
                                "platform_validate", "platform_deploy"}

\* C2: create_checkpoint is called at most once in a deploy, and only after
\* the platform's deploy() returned true; a deploy that returns false
\* because the configuration is invalid, the platform's validate() or its
\* deploy() returned false leaves every sidecar and archive as it was.
C2_CheckpointOnlyAfterDeploy ==
    /\ [](IsDeploy(last) =>
            /\ Count(last.trace, "create_checkpoint") <= 1
            /\ Has(last.trace, "create_checkpoint") =>
                  /\ Has(last.trace, "platform_deploy")
                  /\ OutOf(last.trace, "platform_deploy") = "true"
                  /\ Index(last.trace, "platform_deploy")
                        < Index(last.trace, "create_checkpoint"))
    /\ [][DeployStageFailed(last') =>
            (~Has(last'.trace, "create_checkpoint") /\ UNCHANGED storeVars)]_vars

\* C2 witness: the platform's deploy() returned false while the history
\* already held a checkpoint.
C2_Witness ==
    /\ DeployStageFailed(last)
    /\ LastStep(last) = Step("platform_deploy", "false")
    /\ sidecars # <<>>

MigrationFailed(call) ==
    /\ IsDeploy(call)
    /\ call.run_migrations
    /\ Has(call.trace, "run_migrations")
    /\ OutOf(call.trace, "run_migrations") = "false"

\* C3: a deploy whose migration returned false still runs the platform's
\* deploy() and, when that succeeds, the checkpoint step, and returns true;
\* it returns false only when the platform's deploy() returned false.
C3_TolerantMigration ==
    MigrationFailed(last) =>
        /\ Has(last.trace, "platform_deploy")
        /\ OutOf(last.trace, "platform_deploy") = "true" =>
              (last.result = "true" /\ Has(last.trace, "create_checkpoint"))
        /\ last.result = "false" => LastStep(last) = Step("platform_deploy", "false")

\* C3 witness: the migration failed and the deploy returned true with a
\* checkpoint persisted.
C3_Witness ==
    /\ MigrationFailed(last)
    /\ last.result = "true"
    /\ OutOf(last.trace, "create_checkpoint") = "true"
    /\ sidecars # <<>>

\* C4 (as claimed): every deploy call ends by returning true or false,
\* whatever the capabilities do, including raising.
C4_NeverRaises == IsDeploy(last) => last.result \in {"true", "false"}

\* The order of the steps of a deploy call as the code runs them.
CodeOrder(steps) ==
    /\ steps[1].step = "system_checks"
    /\ Before(steps, "system_checks", "config_validate")
    /\ Before(steps, "config_validate", "platform_validate")
    /\ Before(steps, "platform_validate", "run_migrations")
    /\ Before(steps, "platform_validate", "platform_deploy")
    /\ Before(steps, "run_migrations", "platform_deploy")
    /\ Before(steps, "platform_deploy", "create_checkpoint")

\* C5 (as claimed): the migration step runs before the configuration
\* validation and the platform's validate() of the DEPLOY stage.
C5_MigrationBeforeValidation ==
    IsDeploy(last) =>
        /\ Before(last.trace, "system_checks", "run_migrations")
        /\ Before(last.trace, "run_migrations", "config_validate")
        /\ Before(last.trace, "run_migrations", "platform_validate")
        /\ Before(last.trace, "run_migrations", "platform_deploy")
        /\ Before(last.trace, "platform_deploy", "create_checkpoint")

\* C5 (amended): the steps of a deploy call run in the order system gate,
\* configuration validation, platform validate(), migration (exactly when
\* run_migrations is true and the validation passed), platform deploy(),
\* checkpoint; a deploy that returns false ended at the system gate, in the
\* validation or at the platform's deploy(), never at the migration.
C5_ValidationBeforeMigration ==
    IsDeploy(last) =>
        /\ CodeOrder(last.trace)
        /\ Has(last.trace, "platform_deploy") =>
              (Has(last.trace, "run_migrations") <=> last.run_migrations)
        /\ Has(last.trace, "run_migrations") => Has(last.trace, "platform_deploy")
        /\ last.result = "false" =>
              LastStep(last).step \in {"system_checks", "config_validate",
                                       "initialize_deployer", "platform_validate",
                                       "platform_deploy"}

\* C5 witness: a deploy with migrations that ran every step.
C5_Witness ==
    /\ IsDeploy(last)
    /\ Has(last.trace, "run_migrations")
    /\ Has(last.trace, "config_validate")
    /\ Has(last.trace, "create_checkpoint")

\* C6 (as claimed): a deploy call that reaches the platform's deploy() has
\* called the platform's validate() and then its prepare() before.
C6_ValidatePrepareDeploy ==
    (IsDeploy(last) /\ Has(last.trace, "platform_deploy")) =>
        /\ Has(last.trace, "platform_validate")
        /\ Has(last.trace, "platform_prepare")
        /\ Index(last.trace, "platform_validate") < Index(last.trace, "platform_prepare")
        /\ Index(last.trace, "platform_prepare") < Index(last.trace, "platform_deploy")

\* C7 (as claimed): deploy returns true only if the checkpoint of that
\* deploy was persisted; a failed sidecar write makes deploy return false.
C7_TrueOnlyIfCheckpointed ==
    (IsDeploy(last) /\ last.result = "true") =>
        /\ Has(last.trace, "create_checkpoint")
        /\ OutOf(last.trace, "create_checkpoint") = "true"

(***************************************************************************)
(* Properties of the snapshot store, checked under SpecRestore and         *)
(* SpecStore.                                                              *)
(***************************************************************************)
\* The sidecar with the newest modification time.
NewestSidecar == sidecars[Len(sidecars)]

\* The call was a rollback whose restore succeeded.
Restored(call) ==
    /\ call.op = "rollback"
    /\ Has(call.trace, "restore_snapshot")
    /\ OutOf(call.trace, "restore_snapshot") = "true"

\* C8 (as claimed): after a checkpoint has been restored, every file that
\* was in the tree the checkpoint was created from has the content it had
\* then.
C8_RoundTripEveryFile ==
    Restored(last) =>
        \A f \in Files : NewestSidecar.src[f] # 0 => tree[f] = NewestSidecar.src[f]

\* The archive of the checkpoint still is the snapshot taken when the record
\* was written: no later create_checkpoint with the same id replaced it.
ArchiveIntact(rec) ==
    /\ rec.id \in DOMAIN archives
    /\ archives[rec.id].valid
    /\ \A f \in Files : archives[rec.id].files[f] = (IF IsExcluded(f) THEN 0 ELSE rec.src[f])

\* C8 (amended): after a checkpoint has been restored from the archive taken
\* with it, every file that was in the tree the checkpoint was created from
\* and that a snapshot does not leave out (a file under an excluded
\* directory, a .pyc or .pyo file) has the content it had then.
C8_RoundTripArchivedFiles ==
    (Restored(last) /\ ArchiveIntact(NewestSidecar)) =>
        \A f \in Files :
            (NewestSidecar.src[f] # 0 /\ ~IsExcluded(f)) => tree[f] = NewestSidecar.src[f]

\* C8 witness: a file was edited after the checkpoint and the rollback put
\* its checkpoint-time content back.
C8_Witness ==
    /\ Restored(last)
    /\ ArchiveIntact(NewestSidecar)
    /\ \E f \in Files :
          /\ ~IsExcluded(f)
          /\ NewestSidecar.src[f] # 0
          /\ last.tree_before[f] # NewestSidecar.src[f]
          /\ tree[f] = NewestSidecar.src[f]

\* The call ran the retention sweep to its end.
Swept(call) ==
    \/ call.op = "clean_old_deployments" /\ deploymentDir
    \/ call.op = "create_checkpoint" /\ call.result = "state"

\* The keep_count of the sweep the call ran.
KeepCountOf(call) ==
    IF call.op = "clean_old_deployments" THEN call.keep_count ELSE DefaultKeepCount

Min(a, b) == IF a <= b THEN a ELSE b

IsNewestPart(rest, all) ==
    /\ Len(rest) <= Len(all)
    /\ rest = SubSeq(all, Len(all) - Len(rest) + 1, Len(all))

\* A step of the retention sweep called directly (not the clock's).
CleanStep == last'.op = "clean_old_deployments" /\ now' = now

\* A step of a create_checkpoint that returned a state (not the clock's).
CheckpointStep ==
    last'.op = "create_checkpoint" /\ last'.result = "state" /\ now' = now

RollbackStep == last'.op = "rollback"

\* The step is a rollback_to_previous call that was given a callback.
RollbackWithCallbackStep == RollbackStep /\ last'.platform # "none"

\* The newest sidecar is a readable record that names an archive, and that
\* archive is on disk.
PreviousHasArchive ==
    /\ deploymentDir
    /\ sidecars # <<>>
    /\ NewestSidecar.ok
    /\ NewestSidecar.art
    /\ NewestSidecar.id \in DOMAIN archives

\* The files a checkpoint captured have the content they had when the
\* record rec was written.
CapturedContent(t, rec) ==
    \A f \in Files : (rec.src[f] # 0 /\ ~IsExcluded(f)) => t[f] = rec.src[f]

\* C11 (as claimed): when the newest checkpoint has its archive on disk,
\* rollback(callback) restores the snapshot and then invokes the callback
\* once with that checkpoint's record; when the callback returns true,
\* rollback returns true and the captured files have their checkpoint-time
\* content.
C11_RestoreThenCallback ==
    [][(RollbackWithCallbackStep /\ PreviousHasArchive) =>
          /\ Len(last'.trace) = 2
          /\ last'.trace[1] = Step("restore_snapshot", "true")
          /\ last'.trace[2].step = "deploy_callback"
          /\ last'.trace[2].arg = NewestSidecar
          /\ last'.platform = "true" =>
                (last'.result = "true" /\ CapturedContent(tree', NewestSidecar))]_vars

\* C11 (amended): when the newest checkpoint has its archive on disk,
\* rollback(callback) first tries to restore the snapshot; the callback is
\* invoked exactly when the restore succeeded, once, after it, with that
\* checkpoint's record, whose platform is the lower-cased platform given to
\* create_checkpoint; when the callback returns true, rollback returns true,
\* and the captured files have their checkpoint-time content if the archive
\* still is the one written with the record.
C11_CallbackAfterSuccessfulRestore ==
    /\ [][RollbackWithCallbackStep =>
            /\ PreviousHasArchive => last'.trace[1].step = "restore_snapshot"
            /\ Count(last'.trace, "deploy_callback") <= 1
            /\ Has(last'.trace, "deploy_callback") <=>
                  (/\ Has(last'.trace, "restore_snapshot")
                   /\ OutOf(last'.trace, "restore_snapshot") = "true")
            /\ Has(last'.trace, "deploy_callback") =>
                  /\ Index(last'.trace, "restore_snapshot")
                        < Index(last'.trace, "deploy_callback")
                  /\ last'.trace[Index(last'.trace, "deploy_callback")].arg
                        = NewestSidecar
                  /\ last'.platform = "true" =>
                        /\ last'.result = "true"
                        /\ ArchiveIntact(NewestSidecar) =>
                              CapturedContent(tree', NewestSidecar)]_vars
    /\ [][(last'.op = "create_checkpoint" /\ last'.result = "state") =>
            sidecars'[Len(sidecars')].platform = Lower(last'.platform)]_vars

\* C11 witness: a checkpoint taken for "Render", a file edited afterwards,
\* and a rollback whose callback got the record with platform "render" and
\* returned true: the file has its checkpoint-time content again.
C11_Witness ==
    /\ last.op = "rollback"
    /\ last.platform = "true"
    /\ last.result = "true"
    /\ Len(last.trace) = 2
    /\ last.trace[2].arg = NewestSidecar
    /\ NewestSidecar.platform = "render"
    /\ ArchiveIntact(NewestSidecar)
    /\ \E f \in Files :
          /\ ~IsExcluded(f)
          /\ last.tree_before[f] # NewestSidecar.src[f]
          /\ tree[f] = NewestSidecar.src[f]

\* The step is a rollback whose restore succeeded and whose callback
\* returned false.
CallbackFailedStep ==
    /\ RollbackStep
    /\ Len(last'.trace) = 2
    /\ last'.trace[1] = Step("restore_snapshot", "true")
    /\ last'.trace[2].step = "deploy_callback"
    /\ last'.trace[2].out = "false"

\* C12 (as claimed): when the restore succeeded and the callback returned
\* false, rollback returns false and the files captured by the checkpoint
\* have their checkpoint-time content (nothing is un-restored).
C12_NoUnrestore ==
    [][CallbackFailedStep =>
          /\ last'.result = "false"
          /\ CapturedContent(tree', NewestSidecar)]_vars

\* C12 (amended): when the restore succeeded and the callback returned
\* false, rollback returns false and the tree stays as the restore left it:
\* every file of the archive has the content the archive holds, which is
\* its checkpoint-time content if the archive still is the one written with
\* the record, and every other file is as it was before the rollback.
C12_TreeStaysRestored ==
    [][CallbackFailedStep =>
          /\ last'.result = "false"
          /\ \A f \in Files :
                tree'[f] = IF f \in Members(archives[NewestSidecar.id])
                           THEN archives[NewestSidecar.id].files[f]
                           ELSE tree[f]
          /\ ArchiveIntact(NewestSidecar) =>
                CapturedContent(tree', NewestSidecar)]_vars

\* C12 witness: a file edited after the checkpoint has its checkpoint-time
\* content again after a rollback that returned false because its callback
\* did.
C12_Witness ==
    /\ last.op = "rollback"
    /\ last.platform = "false"
    /\ last.result = "false"
    /\ Len(last.trace) = 2
    /\ last.trace[2].out = "false"
    /\ ArchiveIntact(NewestSidecar)
    /\ \E f \in Files :
          /\ ~IsExcluded(f)
          /\ last.tree_before[f] # NewestSidecar.src[f]
          /\ tree[f] = NewestSidecar.src[f]

\* C13: with no history directory, or none that holds a sidecar, rollback
\* returns false and raises nothing, takes no step (no restore, no
\* callback), and leaves the history and the project tree as they are.
C13_NothingToRollBack ==
    /\ [][(RollbackStep /\ (~deploymentDir \/ sidecars = <<>>)) =>
            /\ last'.result = "false"
            /\ last'.trace = <<>>
            /\ UNCHANGED <<tree, storeVars>>]_vars
    /\ [](last.op = "rollback" => last.result \in {"true", "false"})

\* C13 witness: a rollback with a callback on a history directory that
\* holds an archive but no sidecar (the sidecar write of the only
\* checkpoint failed).
C13_Witness ==
    /\ last.op = "rollback"
    /\ last.platform = "true"
    /\ last.result = "false"
    /\ last.trace = <<>>
    /\ deploymentDir
    /\ sidecars = <<>>
    /\ archives # <<>>

\* The newest sidecar is a readable record without an artifact_path, or one
\* whose archive is not on disk.
PreviousLacksArchive ==
    /\ deploymentDir
    /\ sidecars # <<>>
    /\ NewestSidecar.ok
    /\ (~NewestSidecar.art \/ NewestSidecar.id \notin DOMAIN archives)

\* C14: when the newest record has no artifact_path or its archive is not
\* on disk, the restore fails at once: rollback returns false, no file of
\* the project tree is modified and the callback is not invoked.
C14_RestoreFailsWithoutArchive ==
    [][(RollbackStep /\ PreviousLacksArchive) =>
          /\ last'.result = "false"
          /\ last'.trace = <<Step("restore_snapshot", "false")>>
          /\ tree' = tree]_vars

\* C14 witness: the archive of the newest record was lost, the tree differs
\* from what the checkpoint captured, and a rollback with a callback
\* returned false.
C14_Witness ==
    /\ last.op = "rollback"
    /\ last.platform = "true"
    /\ last.result = "false"
    /\ last.trace = <<Step("restore_snapshot", "false")>>
    /\ sidecars # <<>>
    /\ NewestSidecar.ok
    /\ NewestSidecar.art
    /\ NewestSidecar.id \notin DOMAIN archives
    /\ ~CapturedContent(tree, NewestSidecar)

(***************************************************************************)
(* Properties of create_checkpoint, checked under SpecStore.               *)
(***************************************************************************)
\* The step is a create_checkpoint call (not the clock's).
CreateStep == last'.op = "create_checkpoint" /\ now' = now

\* The step is a create_checkpoint call in which the archive could not be
\* created and nothing else went wrong.
ArchiveFailedStep ==
    /\ CreateStep
    /\ Has(last'.trace, "_create_project_snapshot")
    /\ OutOf(last'.trace, "_create_project_snapshot") = "none"
    /\ faults' = faults + 1

\* C15: when the archive cannot be created and the sidecar write succeeds,
\* create_checkpoint returns a state, the sidecar it wrote has no
\* artifact_path, and the retention sweep ran; create_checkpoint returns
\* None only when the sidecar was not written (it is untouched, or left
\* truncated), which takes a fault.
C15_CheckpointWithoutArchive ==
    /\ [][ArchiveFailedStep =>
            /\ last'.result = "state"
            /\ sidecars'[Len(sidecars')].id = <<Lower(last'.platform), now>>
            /\ sidecars'[Len(sidecars')].ok
            /\ ~sidecars'[Len(sidecars')].art
            /\ Has(last'.trace, "clean_old_deployments")
            /\ Len(sidecars') = Min(DefaultKeepCount, last'.found)]_vars
    /\ [][(CreateStep /\ last'.result = "none") =>
            /\ faults' > faults
            /\ ~Has(last'.trace, "clean_old_deployments")
            /\ \/ sidecars' = sidecars
               \/ /\ sidecars' # <<>>
                  /\ sidecars'[Len(sidecars')].id = <<Lower(last'.platform), now>>
                  /\ ~sidecars'[Len(sidecars')].ok]_vars

\* C15 witness: the sixth checkpoint was written without an archive, and
\* the sweep that followed removed the oldest of the six sidecars.
C15_Witness ==
    /\ last.op = "create_checkpoint"
    /\ last.result = "state"
    /\ OutOf(last.trace, "_create_project_snapshot") = "none"
    /\ ~NewestSidecar.art
    /\ NewestSidecar.id \notin DOMAIN archives
    /\ last.found = DefaultKeepCount + 1
    /\ Len(sidecars) = DefaultKeepCount

(***************************************************************************)
(* Further properties of the restore, checked under SpecRollback.          *)
(***************************************************************************)
\* The files of the archive a rollback extracts from (none when the newest
\* record names no archive that is on disk).
ArchivedFiles ==
    IF PreviousHasArchive THEN Members(archives[NewestSidecar.id]) ELSE {}

\* C16: a restore deletes no file: every file of the live tree that the
\* archive does not hold is there afterwards with unchanged content, and a
\* file that changed is a path of the archive, with the archive's content.
C16_RestoreNeverDeletes ==
    [][RollbackStep =>
          \A f \in Files :
              /\ tree[f] # 0 => tree'[f] # 0
              /\ f \notin ArchivedFiles => tree'[f] = tree[f]
              /\ tree'[f] # tree[f] =>
                    /\ f \in ArchivedFiles
                    /\ tree'[f] = archives[NewestSidecar.id].files[f]]_vars

\* C16 witness: after a successful restore a file that the archive does not
\* hold, and that was changed after the checkpoint, is still there as it
\* was before the restore.
C16_Witness ==
    /\ Restored(last)
    /\ ArchiveIntact(NewestSidecar)
    /\ \E f \in Files :
          /\ f \notin Members(archives[NewestSidecar.id])
          /\ tree[f] # 0
          /\ tree[f] # NewestSidecar.src[f]
          /\ tree[f] = last.tree_before[f]

(***************************************************************************)
(* Properties of the persisted records, checked under SpecHistory.         *)
(***************************************************************************)
\* The record is in the history after the step, as it was.
RecordKept(rec) == \E j \in DOMAIN sidecars' : sidecars'[j] = rec

\* The step ran a retention sweep that had sidecars to delete, and the
\* record is gone after it.
RecordSwept(rec) ==
    /\ rec.id \notin Ids(sidecars')
    /\ \/ last'.op = "clean_old_deployments"
       \/ last'.op = "create_checkpoint" /\ last'.result = "state"
    /\ last'.found > KeepCountOf(last')

\* The step is a create_checkpoint that generated the id of the record.
RecordRewritten(rec) ==
    /\ last'.op = "create_checkpoint"
    /\ rec.id = <<Lower(last'.platform), now>>

\* C17 (as claimed): a persisted record is never changed by a later
\* operation, it can only be removed by the retention sweep; a rollback
\* changes nothing of the history.
C17_RecordsImmutable ==
    /\ [][\A i \in DOMAIN sidecars :
            RecordKept(sidecars[i]) \/ RecordSwept(sidecars[i])]_vars
    /\ [][RollbackStep => UNCHANGED storeVars]_vars

\* C17 (amended): a persisted record is never changed by a later operation
\* and can only be removed by the retention sweep, except that a
\* create_checkpoint for the same platform in the same second, which
\* generates the same id, rewrites it; a rollback changes nothing of the
\* history.
C17_RecordsImmutableUnlessSameId ==
    /\ [][\A i \in DOMAIN sidecars :
            \/ RecordKept(sidecars[i])
            \/ RecordSwept(sidecars[i])
            \/ RecordRewritten(sidecars[i])]_vars
    /\ [][RollbackStep => UNCHANGED storeVars]_vars

\* C17 witness: a sweep with keep_count 1 on a history of two records
\* removed the older one and left the newer one as it was.
C17_Witness ==
    /\ last.op = "clean_old_deployments"
    /\ last.keep_count = 1
    /\ last.found = 2
    /\ Len(sidecars) = 1
    /\ NewestSidecar.ok
    /\ NewestSidecar.art

(***************************************************************************)
(* Properties of get_previous_deployment, checked under SpecRollback.      *)
(***************************************************************************)
\* The last call was get_previous_deployment.
IsGetPrevious(call) == call.op = "get_previous_deployment"

\* C18 (as claimed): get_previous_deployment returns the record of the
\* sidecar with the newest modification time whenever the history
\* directory holds a sidecar, and None when the directory is absent or
\* holds no sidecar.
C18_ReturnsNewestRecord ==
    IsGetPrevious(last) =>
        IF deploymentDir /\ sidecars # <<>>
        THEN last.result = "state" /\ last.trace[1].out = NewestSidecar
        ELSE last.result = "none"

\* C18 (amended): get_previous_deployment returns the record of the sidecar
\* with the newest modification time, or None when that sidecar cannot be
\* parsed (it never falls back on an older one); it returns None when the
\* directory is absent or holds no sidecar; right after a create_checkpoint
\* that returned a state it returns the record of that checkpoint.
C18_NewestRecordOrNone ==
    /\ [](IsGetPrevious(last) =>
            IF deploymentDir /\ sidecars # <<>> /\ NewestSidecar.ok
            THEN last.result = "state" /\ last.trace[1].out = NewestSidecar
            ELSE last.result = "none")
    /\ [][(last'.op = "create_checkpoint" /\ last'.result = "state") =>
            LET previous == get_previous_deployment(
                                Store(deploymentDir', artifactsDir', sidecars',
                                      archives'))
            IN /\ previous # <<>>
               /\ previous[1].id = <<Lower(last'.platform), now>>
               /\ previous[1].src = tree]_vars

\* C18 witness: the history holds the records of two checkpoints and
\* get_previous_deployment returned the one written last.
C18_Witness ==
    /\ IsGetPrevious(last)
    /\ last.result = "state"
    /\ Len(sidecars) = 2
    /\ ncreated = 2
    /\ last.trace[1].out = sidecars[2]
    /\ sidecars[1].ok

(***************************************************************************)
(* Properties of check_deployment_readiness, checked under Spec.           *)
(***************************************************************************)
\* The last call was check_deployment_readiness.
IsCheck(call) == call.op = "check"

\* The system checker of the call returned its results (it did not raise).
GateReported(call) ==
    /\ Has(call.trace, "system_checks")
    /\ OutOf(call.trace, "system_checks") \in {"ready", "notready"}

\* The result list the system gate of the call produced.
SystemResults(call) ==
    <<[category |-> "system",
       passed |-> OutOf(call.trace, "system_checks") = "ready"]>>

\* The result list the call returned.
Returned(call) == OutOf(call.trace, "return")

IsDeployToMultiple(call) == call.op = "deploy_to_multiple"

\* The list of platforms the call was given.
PlatformsOf(call) == OutOf(call.trace, "platforms")

\* The deploy calls the call made, in the order it made them.
DeployCalls(call) == SelectSeq(call.trace, LAMBDA s : s.step = "deploy")

\* C21 (as claimed): deploy_to_multiple_platforms calls deploy exactly once
\* per element of the list, in list order, and returns a dictionary that
\* gives for every platform of the list the result of a deploy call made
\* for that platform; a false result or an unknown platform never keeps
\* deploy from being called for the later elements.
C21_OncePerElementInOrder ==
    IsDeployToMultiple(last) =>
        LET platforms == PlatformsOf(last)
            calls == DeployCalls(last)
        IN /\ Len(calls) = Len(platforms)
           /\ \A i \in DOMAIN calls : calls[i].arg = platforms[i]
           /\ last.result = "dict"
           /\ Has(last.trace, "return")
           /\ DOMAIN Returned(last) = { platforms[i] : i \in DOMAIN platforms }
           /\ \A i \in DOMAIN platforms :
                 \E j \in DOMAIN calls :
                     /\ calls[j].arg = platforms[i]
                     /\ Returned(last)[platforms[i]] = calls[j].out

(***************************************************************************)
(* Further properties of Deployer.deploy, checked under Spec.              *)
(***************************************************************************)
\* The step named name is in the trace and returned out.
Returns(steps, name, out) == Has(steps, name) /\ OutOf(steps, name) = out

\* C22: deploy runs no framework checker, and whatever the last readiness
\* check returned (ready, not ready because of the framework checker or of
\* the system gate) or if none was made, a deploy goes on from every step
\* that succeeded: past the system gate to the configuration validation,
\* from a valid configuration and a registered platform to the platform's
\* validate(), from there to the platform's deploy(), and it returns true
\* when that returned true.
C22_NoFrameworkGateInDeploy ==
    IsDeploy(last) =>
        /\ ~Has(last.trace, "framework_checks")
        /\ Returns(last.trace, "system_checks", "ready") =>
              Has(last.trace, "config_validate")
        /\ (Returns(last.trace, "config_validate", "true")
                /\ initialize_deployer(last.platform)) =>
              Has(last.trace, "platform_validate")
        /\ Returns(last.trace, "platform_validate", "true") =>
              Has(last.trace, "platform_deploy")
        /\ Returns(last.trace, "platform_deploy", "true") => last.result = "true"

\* C22 witness: the last readiness check passed the system gate and failed
\* the framework checker, and the deploy after it returned true.
C22_Witness ==
    /\ IsDeploy(last)
    /\ readiness = "framework_notready"
    /\ Returns(last.trace, "system_checks", "ready")
    /\ Returns(last.trace, "platform_deploy", "true")
    /\ last.result = "true"

\* C25 (as claimed): in a deploy the platform's validate() is called only
\* after the configuration validation passed and the platform name was
\* resolved to a registered deployer; with an invalid configuration or an
\* unrecognized platform, deploy returns false and calls neither the
\* platform's validate() nor its deploy() nor create_checkpoint.
C25_ValidateOnlyAfterConfig ==
    IsDeploy(last) =>
        /\ Has(last.trace, "platform_validate") =>
              /\ Returns(last.trace, "config_validate", "true")
              /\ Returns(last.trace, "initialize_deployer", "ok")
              /\ Index(last.trace, "config_validate")
                    < Index(last.trace, "initialize_deployer")
              /\ Index(last.trace, "initialize_deployer")
                    < Index(last.trace, "platform_validate")
        /\ (config # "valid" \/ ~initialize_deployer(last.platform)) =>
              /\ last.result = "false"
              /\ ~Has(last.trace, "platform_validate")
              /\ ~Has(last.trace, "platform_deploy")
              /\ ~Has(last.trace, "create_checkpoint")

(***************************************************************************)
(* Properties of the dependency-pinning check, checked under SpecPinning.  *)
(***************************************************************************)
\* The line is neither blank nor a comment: its first character that is not
\* a blank is not "#".
CountedLine(line) ==
    \E i \in DOMAIN line :
        /\ line[i] \notin {" ", "#"}
        /\ \A j \in 1 .. i - 1 : line[j] = " "

\* The line holds one of ==, >=, <=, ~=, === (which holds ==).
HasVersionOperator(line) ==
    \E i \in 1 .. Len(line) - 1 :
        line[i] \in {"=", ">", "<", "~"} /\ line[i + 1] = "="

\* The non-blank non-comment lines of requirements.txt.
CountedLines == { i \in DOMAIN requirements.lines : CountedLine(requirements.lines[i]) }

\* Those of them that hold a version operator.
PinnedLines == { i \in CountedLines : HasVersionOperator(requirements.lines[i]) }

\* C23: the dependency-pinning check passes exactly when requirements.txt
\* exists, has at least one non-blank non-comment line, and
\* 5 * pinned >= 3 * total, where total counts those lines and pinned those
\* of them holding a version operator (so 2 of 3 and 3 of 5 pass, 1 of 2 and
\* no counted line fail).
C23_PinningThreshold ==
    last.op = "check_dependency_pinning" =>
        LET total == Cardinality(CountedLines)
            pinned == Cardinality(PinnedLines)
        IN /\ last.result = Bool(/\ requirements.exists
                                  /\ total >= 1
                                  /\ 5 * pinned >= 3 * total)
           /\ requirements.exists =>
                 OutOf(last.trace, "count") = [pinned |-> pinned, total |-> total]

\* C23 witness: a file of which exactly three of five counted lines are
\* pinned passes.
C23_Witness ==
    /\ last.op = "check_dependency_pinning"
    /\ last.result = "true"
    /\ Cardinality(PinnedLines) = 3
    /\ Cardinality(CountedLines) = 5

(***************************************************************************)
(* Properties of the command line, checked under SpecCli.                  *)
(***************************************************************************)
\* The last command was "rollback" and it called rollback_to_previous.
RolledBack(call) ==
    call.op = "cmd_rollback" /\ Has(call.trace, "rollback_to_previous")

\* The last command was "run" and it called Deployer.deploy.
RanDeploy(call) == call.op = "cmd_run" /\ Has(call.trace, "deploy")

\* C24 (as claimed): the command "rollback" exits with a non-zero status
\* when the rollback returned false and reports success only when it
\* returned true, and the command "run" exits with a non-zero status when
\* deploy returned false.
C24_ExitStatusFollowsResult ==
    /\ RolledBack(last) =>
          /\ OutOf(last.trace, "rollback_to_previous") = "false" => last.result # "0"
          /\ Returns(last.trace, "print", "ROLLBACK SUCCESSFUL") =>
                OutOf(last.trace, "rollback_to_previous") = "true"
    /\ (RanDeploy(last) /\ OutOf(last.trace, "deploy") = "false") =>
          last.result # "0"

(***************************************************************************)
(* Properties of the checkpoint ids, checked under SpecIds.                *)
(***************************************************************************)
\* The id a create_checkpoint step generated.
StepId == _generate_deployment_id(last'.platform, now)

\* The step is a create_checkpoint that returned a state, for a platform
\* and in a second for which the history already holds a sidecar.
SameIdStep == CheckpointStep /\ \E i \in DOMAIN sidecars : sidecars[i].id = StepId

\* The sidecars named id.
Named(cars, id) == { i \in DOMAIN cars : cars[i].id = id }

\* What the steps of create_checkpoint have in common under both readings
\* of C26: the sidecar written is the only one of its id and holds the
\* record of this call; below the retention limit the number of sidecars
\* grows by one exactly when no sidecar had the id; and an older sidecar
\* has the same id, in the model and as a file name, exactly when it is of
\* the same platform (in lower case) and the same second.
IdsAndCounts ==
    LET new == sidecars'[Len(sidecars')]
    IN /\ new.id = StepId
       /\ new.ok
       /\ new.src = tree
       /\ Cardinality(Named(sidecars', StepId)) = 1
       /\ Len(sidecars) < DefaultKeepCount =>
             Len(sidecars') = IF Named(sidecars, StepId) = {}
                              THEN Len(sidecars) + 1
                              ELSE Len(sidecars)
       /\ \A i \in DOMAIN sidecars :
             /\ (sidecars[i].id = new.id) <=>
                    (/\ sidecars[i].id[1] = Lower(last'.platform)
                     /\ sidecars[i].id[2] = now)
             /\ (IdText(sidecars[i].id) = IdText(new.id)) <=>
                    (sidecars[i].id = new.id)

\* C26 (as claimed): a create_checkpoint for the platform and in the second
\* of an earlier one gets the same id and overwrites its sidecar and its
\* archive, so that the history holds one checkpoint for the two calls;
\* calls for different platforms or in different seconds get different
\* ids.
C26_SecondOverwritesBoth ==
    [][CheckpointStep =>
          /\ IdsAndCounts
          /\ SameIdStep =>
                /\ StepId \in DOMAIN archives'
                /\ archives'[StepId] = [valid |-> TRUE, files |-> SnapshotFiles(tree)]]_vars

\* C26 (amended): a create_checkpoint for the platform and in the second of
\* an earlier one gets the same id and overwrites its sidecar, and its
\* archive when the second call writes its own archive; when the second
\* call cannot create its archive, its record has no artifact_path and the
\* archive of the first call stays on disk, or is replaced by a broken
\* file.  The history holds one sidecar for the two calls.  Calls for
\* different platforms or in different seconds get different ids.
C26_SecondOverwritesWhatItWrites ==
    [][CheckpointStep =>
          /\ IdsAndCounts
          /\ LET new == sidecars'[Len(sidecars')]
             IN /\ new.art =>
                      /\ StepId \in DOMAIN archives'
                      /\ archives'[StepId] =
                            [valid |-> TRUE, files |-> SnapshotFiles(tree)]
                /\ (~new.art /\ StepId \in DOMAIN archives') =>
                      \/ archives'[StepId] = BrokenZip
                      \/ (StepId \in DOMAIN archives
                            /\ archives'[StepId] = archives[StepId])]_vars

\* C26 witness: two create_checkpoint calls returned a state, for "render"
\* and "Render" in one second, with an edit in between; the history holds
\* one sidecar and one archive, those of the second call.
C26_Witness ==
    /\ last.op = "create_checkpoint"
    /\ last.result = "state"
    /\ ncreated = 2
    /\ Len(sidecars) = 1
    /\ NewestSidecar.src = tree
    /\ tree # InitialTree
    /\ NewestSidecar.art
    /\ Cardinality(DOMAIN archives) = 1
    /\ ArchiveIntact(NewestSidecar)

(***************************************************************************)
(* Consistency of the history, checked under SpecStore.                    *)
(***************************************************************************)
\* The archives whose id no sidecar file has.
Orphans(cars, zips) == (DOMAIN zips) \ Ids(cars)

\* Every archive has the id of a sidecar, and every sidecar that records an
\* artifact_path has its archive on disk.
Consistent(cars, zips) ==
    /\ Orphans(cars, zips) = {}
    /\ \A i \in DOMAIN cars :
          (cars[i].ok /\ cars[i].art) => cars[i].id \in DOMAIN zips

\* The step is a create_checkpoint that wrote its archive and then failed
\* to write its sidecar.
FailedSaveStep ==
    /\ last'.op = "create_checkpoint"
    /\ last'.result = "none"
    /\ now' = now
    /\ Returns(last'.trace, "_create_project_snapshot", "path")

\* The step runs a retention sweep.
SweepStep == CheckpointStep \/ CleanStep

AnyRollbackStep == last'.op \in {"rollback", "deployer_rollback"} /\ now' = now

\* The record a rollback passed to its callback.
Redeployed(call) == call.trace[Index(call.trace, "deploy_callback")].arg

\* C28: a rollback, whether it returns true or false and with or without a
\* callback, leaves every sidecar and every archive as it was; the callback
\* of Deployer.rollback runs the platform's deploy action only, with no
\* system gate, migration or checkpoint step; and a rollback that follows a
\* rollback selects the checkpoint the first one selected.
C28_RollbackLeavesHistory ==
    [][AnyRollbackStep =>
          /\ storeVars' = storeVars
          /\ get_previous_deployment(Store(deploymentDir', artifactsDir', sidecars',
                                           archives'))
                = get_previous_deployment(CurrentStore)
          /\ \A k \in DOMAIN last'.trace :
                last'.trace[k].step \in {"restore_snapshot", "deploy_callback",
                                         "initialize_deployer", "platform_deploy"}
          /\ Has(last'.trace, "deploy_callback") =>
                <<Redeployed(last')>> = get_previous_deployment(CurrentStore)
          /\ (last.op \in {"rollback", "deployer_rollback"}
                /\ Has(last.trace, "deploy_callback")
                /\ Has(last'.trace, "deploy_callback")) =>
                Redeployed(last') = Redeployed(last)]_vars

\* C28 witness: Deployer.rollback returned true a second time in a row, its
\* callback having redeployed the newest of two checkpoints; the two
\* sidecars and the two archives are still there.
C28_Witness ==
    /\ last.op = "deployer_rollback"
    /\ last.again
    /\ last.result = "true"
    /\ Has(last.trace, "platform_deploy")
    /\ Len(sidecars) = 2
    /\ Cardinality(DOMAIN archives) = 2
    /\ Redeployed(last) = NewestSidecar

(***************************************************************************)
(* Rollback and the newest sidecar, checked under SpecRollback.            *)
(***************************************************************************)
\* The newest sidecar cannot be rolled back to: it cannot be parsed, it
\* records no artifact_path, or its archive is missing.
NewestUnusable ==
    /\ deploymentDir
    /\ sidecars # <<>>
    /\ \/ ~NewestSidecar.ok
       \/ ~NewestSidecar.art
       \/ NewestSidecar.id \notin DOMAIN archives

\* An older sidecar can be parsed and has its archive, readable, on disk.
OlderUsable ==
    \E i \in 1 .. Len(sidecars) - 1 :
        /\ sidecars[i].ok
        /\ sidecars[i].art
        /\ ArchiveIntact(sidecars[i])

\* C29: when the newest sidecar cannot be parsed, records no artifact_path
\* or has lost its archive, rollback returns false, restores nothing, calls
\* no callback and leaves the history as it is, also when an older
\* checkpoint could be restored.
C29_OnlyNewestConsidered ==
    [][(RollbackStep /\ NewestUnusable) =>
          /\ last'.result = "false"
          /\ tree' = tree
          /\ storeVars' = storeVars
          /\ ~Has(last'.trace, "deploy_callback")
          /\ last'.trace = IF NewestSidecar.ok
                           THEN <<[step |-> "restore_snapshot", out |-> "false"]>>
                           ELSE <<>>]_vars

\* C29 witness: a rollback with a callback returned false because the
\* newest of two checkpoints was written without an archive; the older one
\* is intact and holds a content of a file that the tree no longer has.
C29_Witness ==
    /\ last.op = "rollback"
    /\ last.platform = "true"
    /\ last.result = "false"
    /\ Len(sidecars) = 2
    /\ NewestUnusable
    /\ ~NewestSidecar.art
    /\ OlderUsable
    /\ tree = last.tree_before
    /\ \E f \in Members(archives[sidecars[1].id]) :
          tree[f] # archives[sidecars[1].id].files[f]

(***************************************************************************)
(* Overlapping create_checkpoint operations, checked under SpecOverlap.    *)
(***************************************************************************)
\* Process a has written its archive and not yet its sidecar.
BetweenArchiveAndSidecar(a) == ops[a].pc = "write" /\ ops[a].state[1].art

\* The step is the archive half of process b's retention sweep.
SweepArchivesStep(b) == ops[b].pc = "sweep_archives" /\ ops'[b].pc = "idle"

\* The step is process a's sidecar write.
WriteStateStep(a) == ops[a].pc = "write" /\ ops'[a].pc = "sweep"

\* C30: when process b's retention sweep runs while process a has written
\* its archive and not yet its sidecar, and a's id is not among the
\* sidecars b retains, the sweep deletes a's archive; a's sidecar write
\* then leaves a sidecar whose artifact_path names a missing archive, and a
\* rollback that finds this sidecar the newest returns false and restores
\* nothing.
C30_SweepDeletesUnfinishedCheckpoint ==
    /\ [][\A a, b \in Procs :
            (/\ a # b
             /\ BetweenArchiveAndSidecar(a)
             /\ SweepArchivesStep(b)
             /\ ops[a].id \notin ops[b].keep) =>
                /\ ops[a].id \notin DOMAIN archives'
                /\ ops'[a] = ops[a]]_vars
    /\ [][\A a \in Procs :
            (/\ WriteStateStep(a)
             /\ ops[a].state[1].art
             /\ ops[a].id \notin DOMAIN archives) =>
                LET new == sidecars'[Len(sidecars')]
                IN /\ new.id = ops[a].id
                   /\ new.ok /\ new.art
                   /\ new.id \notin DOMAIN archives'
                   /\ ~Consistent(sidecars', archives')]_vars
    /\ [][(/\ RollbackStep
           /\ sidecars # <<>>
           /\ NewestSidecar.ok /\ NewestSidecar.art
           /\ NewestSidecar.id \notin DOMAIN archives) =>
              /\ last'.result = "false"
              /\ tree' = tree]_vars

\* C30 witness: both operations have finished, the newest sidecar is the
\* one of the operation whose archive the other's sweep deleted, an older
\* sidecar has its archive, and a rollback has returned false.
C30_Witness ==
    /\ last.op = "rollback"
    /\ last.result = "false"
    /\ \A p \in Procs : ops[p].pc = "idle"
    /\ ncreated = 2
    /\ Len(sidecars) = 2
    /\ NewestSidecar.ok /\ NewestSidecar.art
    /\ NewestSidecar.id \notin DOMAIN archives
    /\ ArchiveIntact(sidecars[1])

==========================================================================
